---- MODULE Spec2Model ----
(***************************************************************************)
(* Model of the synapse indexer: the store (internal/store), the staged    *)
(* indexing pipeline (internal/index runPipeline) and Indexer.Index.       *)
(*                                                                         *)
(* A file's bytes are an abstract value of Contents; the chunker and the   *)
(* embedding service are deterministic functions of their arguments.  The  *)
(* goroutines of runPipeline are the actions below; a goroutine blocked on *)
(* a channel send is a worker holding an item whose send action is not     *)
(* enabled.  The N identical workers of a stage are the set of items they  *)
(* hold (at most N).                                                       *)
(***************************************************************************)
EXTENDS Integers, Sequences, FiniteSets, TLC

\* ------------------------------------------------------------------ bounds
NumFiles == 2        \* files of the tree that is indexed repeatedly
NumWorkers == 1      \* numWorkers of runPipeline (the --workers flag)
FileChCap == 1       \* buffer of the walker's output channel, scaled down
MaxRuns == 2         \* calls of Indexer.Index in one behaviour
MaxFaults == 1       \* failures of external calls (database, embedder) injected
MaxHits == 2         \* results one search returns
MaxK == 2            \* the k of HybridRetrieve
MaxFileIds == 2      \* file ids assigned when store operations are called directly
MaxChunkIds == 2     \* chunk ids assigned when store operations are called directly
MaxByte == 4         \* the largest byte offset of a capture
MaxCaptures == 3     \* captures of one query
MaxLines == 100      \* source lines of one capture
MaxEntries == 2      \* files of the tree the walker is called on directly
MaxDepth == 2        \* directories above a file of that tree
MaxPatterns == 1     \* patterns of .synapseignore
MaxQuestions == 12   \* questions asked in one chat session

\* ------------------------------------------------------- program constants
embeddedChCap == 4   \* make(chan embeddedBatch, 4)
embedBatchSize == 32
EmbeddingDim == 768  \* vec_chunks.embedding float[768]
maxChunkBytes == 8192
windowSize == 40     \* splitOversized
overlap == 10        \* splitOversized
maxFileSize == 1048576  \* 1 << 20
historyLimit == 20   \* if len(history) > 20 { history = history[len(history)-20:] }

\* A tree large enough to fill every queue and every worker of the stages
\* before the embed stage, with one file left in the walker's hand.
BigTree == FileChCap + 4 * NumWorkers + 2
\* A tree with one file more than the queues and the workers of all the
\* stages can hold at once.
DeepTree == FileChCap + 4 * NumWorkers + embeddedChCap + 2 + 1
Paths == 1..DeepTree
BigPaths == 1..BigTree
TreePaths == 1..NumFiles

Models == {"A", "B"}
Contents == {"b0", "b1", "b2"}
\* Files whose chunks fill one, two and three embedding sub-batches.
WideContents == {"b1", "b33", "b65"}
DiskValues == Contents \cup WideContents \cup {"unreadable", "absent"}

NoErr == [op |-> "", path |-> 0]

\* ---------------------------------------------------------- pure functions

\* hex(sha256(src)): injective on the contents, never the empty string.
Sha256(src) == "sha256:" \o src

\* Number of captures the chunker's query finds in a file's bytes.
CaptureCount(src) == CASE src = "b0" -> 0
                       [] src = "b1" -> 1
                       [] src = "b2" -> 2
                       [] src = "b33" -> embedBatchSize + 1
                       [] src = "b65" -> 2 * embedBatchSize + 1
                       [] OTHER      -> 0

\* ASTChunker.Chunk: the enriched contents, in capture order.  The header of
\* each content names the path, so the content is <<path, src, i>>.
Chunk(path, src) == [i \in 1..CaptureCount(src) |-> <<path, src, i>>]

\* OllamaEmbedder.Embed for one request: one vector per text, order kept.
Embed(model, texts) ==
    [i \in 1..Len(texts) |-> [model |-> model, text |-> texts[i], dim |-> EmbeddingDim]]

Min(a, b) == IF a < b THEN a ELSE b

\* EmbedFrom appending each sub-batch in front of the vectors collected.
RECURSIVE EmbedFromPrepend(_, _, _)
EmbedFromPrepend(model, texts, i) ==
    IF i >= Len(texts) THEN <<>>
    ELSE LET end == Min(i + embedBatchSize, Len(texts))
         IN  EmbedFromPrepend(model, texts, end) \o Embed(model, SubSeq(texts, i + 1, end))

\* The embed stage's loop over sub-batches of embedBatchSize.
RECURSIVE EmbedFrom(_, _, _)
EmbedFrom(model, texts, i) ==
    IF i >= Len(texts) THEN <<>>
    ELSE LET end == Min(i + embedBatchSize, Len(texts))
         IN  Embed(model, SubSeq(texts, i + 1, end)) \o EmbedFrom(model, texts, end)

EmbedAll(model, texts) == EmbedFrom(model, texts, 0)

SeqToSet(s) == {s[i] : i \in 1..Len(s)}

\* ----------------------------------------------------------------- chunker

\* endByte - startByte in uint32: a node ends at or after its start, so the
\* subtraction never wraps.
SpanOf(c) == c.endByte - c.startByte

\* dedup's comparison without the tie-break on the span.
LessByStartOnly(a, b) == a.startByte < b.startByte

\* dedup's sort.Slice comparison: start byte ascending, then span descending.
Less(a, b) ==
    IF a.startByte # b.startByte THEN a.startByte < b.startByte
    ELSE SpanOf(a) > SpanOf(b)

Without(s, i) == SubSeq(s, 1, i - 1) \o SubSeq(s, i + 1, Len(s))

\* sort.Slice(caps, Less).  Captures that compare equal have the same span;
\* the order sort.Slice gives them does not show in the spans.
RECURSIVE SortCaptures(_)
SortCaptures(caps) ==
    IF caps = <<>> THEN <<>>
    ELSE LET i == CHOOSE i \in 1..Len(caps) : \A j \in 1..Len(caps) : ~Less(caps[j], caps[i])
         IN  <<caps[i]>> \o SortCaptures(Without(caps, i))

\* dedup's loop with lastEnd following every capture, kept or not.
RECURSIVE SweepLastSeen(_, _, _, _)
SweepLastSeen(caps, i, lastEnd, result) ==
    IF i > Len(caps) THEN result
    ELSE LET c == caps[i]
         IN  IF c.startByte >= lastEnd \/ lastEnd = 0
             THEN SweepLastSeen(caps, i + 1, c.endByte, Append(result, c))
             ELSE SweepLastSeen(caps, i + 1, c.endByte, result)

\* dedup's loop over the sorted captures from index i on, lastEnd the
\* largest end byte of the captures kept so far.
RECURSIVE Sweep(_, _, _, _)
Sweep(caps, i, lastEnd, result) ==
    IF i > Len(caps) THEN result
    ELSE LET c == caps[i]
         IN  IF c.startByte >= lastEnd \/ lastEnd = 0
             THEN Sweep(caps, i + 1, IF c.endByte > lastEnd THEN c.endByte ELSE lastEnd,
                        Append(result, c))
             ELSE Sweep(caps, i + 1, lastEnd, result)

dedup(caps) == IF Len(caps) <= 1 THEN caps ELSE Sweep(SortCaptures(caps), 1, 0, <<>>)

\* enrichContent, as the lines of its result: the File and Language header
\* lines, the kind: name line when there is a name, then the source lines
\* startLine..endLine.  A line is <<"header", i>> or <<"source", line number>>.
enrichContent(name, startLine, endLine) ==
    <<(<<"header", 1>>), (<<"header", 2>>)>>
    \o (IF name # "" THEN <<(<<"header", 3>>)>> ELSE <<>>)
    \o [k \in 1..(endLine - startLine + 1) |-> <<"source", startLine + k - 1>>]

\* splitOversized's loop advancing by a whole window.
RECURSIVE SplitFromNoOverlap(_, _, _, _, _)
SplitFromNoOverlap(lines, name, kind, baseStartLine, i) ==
    LET end == Min(i + windowSize, Len(lines))
        chunk == [Name |-> name, Kind |-> kind, StartLine |-> baseStartLine + i,
                  EndLine |-> baseStartLine + end - 1,
                  Content |-> SubSeq(lines, i + 1, end)]
    IN  IF i >= Len(lines) THEN <<>>
        ELSE IF end >= Len(lines) THEN <<chunk>>
        ELSE <<chunk>> \o SplitFromNoOverlap(lines, name, kind, baseStartLine,
                                              i + windowSize)

\* splitOversized's loop from line index i on.
RECURSIVE SplitFrom(_, _, _, _, _)
SplitFrom(lines, name, kind, baseStartLine, i) ==
    LET end == Min(i + windowSize, Len(lines))
        chunk == [Name |-> name, Kind |-> kind, StartLine |-> baseStartLine + i,
                  EndLine |-> baseStartLine + end - 1,
                  Content |-> SubSeq(lines, i + 1, end)]
    IN  IF i >= Len(lines) THEN <<>>
        ELSE IF end >= Len(lines) THEN <<chunk>>
        ELSE <<chunk>> \o SplitFrom(lines, name, kind, baseStartLine,
                                     i + windowSize - overlap)

splitOversized(lines, name, kind, baseStartLine) ==
    SplitFrom(lines, name, kind, baseStartLine, 0)

\* Chunk's loop body for one capture whose enriched content has the given
\* lines and length in bytes.
ChunksOfCapture(cap, lines, bytes) ==
    IF bytes > maxChunkBytes
    THEN splitOversized(lines, cap.name, cap.kind, cap.startLine)
    ELSE <<[Name |-> cap.name, Kind |-> cap.kind, StartLine |-> cap.startLine,
            EndLine |-> cap.endLine, Content |-> lines]>>

\* ------------------------------------------------------------------ walker

\* Names, paths and patterns are sequences of one-character strings.  sep is
\* filepath.Separator, "/" or "\\" by the platform.

\* strings.Join(path, sep): a path of names as one string.
RECURSIVE Join(_, _)
Join(path, sep) ==
    IF path = <<>> THEN <<>>
    ELSE IF Len(path) = 1 THEN path[1]
    ELSE path[1] \o <<sep>> \o Join(Tail(path), sep)

\* filepath.Rel(absRoot, path) for the names below the root.
Rel(path, sep) == Join(path, sep)

\* filepath.ToSlash: every separator becomes "/".
ToSlash(str, sep) == [i \in 1..Len(str) |-> IF str[i] = sep THEN "/" ELSE str[i]]

HasPrefix(str, prefix) ==
    Len(prefix) <= Len(str) /\ SubSeq(str, 1, Len(prefix)) = prefix

\* filepath.Match for patterns of literals, "*" and "?": "*" matches any run
\* of characters other than the separator, "?" one such character.
RECURSIVE Match(_, _, _)
Match(pattern, name, sep) ==
    IF pattern = <<>> THEN name = <<>>
    ELSE IF Head(pattern) = "*"
    THEN \E n \in 0..Len(name) :
            /\ \A i \in 1..n : name[i] # sep
            /\ Match(Tail(pattern), SubSeq(name, n + 1, Len(name)), sep)
    ELSE IF name = <<>> THEN FALSE
    ELSE IF Head(pattern) = "?"
    THEN Head(name) # sep /\ Match(Tail(pattern), Tail(name), sep)
    ELSE Head(pattern) = Head(name) /\ Match(Tail(pattern), Tail(name), sep)

\* matchesIgnore with the exact-name test alone.
matchesIgnoreNameOnly(name, relPath, patterns, sep) ==
    \E i \in 1..Len(patterns) : name = patterns[i]

matchesIgnore(name, relPath, patterns, sep) ==
    \E i \in 1..Len(patterns) :
        \/ name = patterns[i]
        \/ HasPrefix(relPath, patterns[i])
        \/ Match(patterns[i], relPath, sep)
        \/ Match(patterns[i], name, sep)

\* The order of the characters of the names, as bytes.
CharOrder == <<"a", "b", "f">>
Ord(ch) == CHOOSE i \in 1..Len(CharOrder) : CharOrder[i] = ch

RECURSIVE NameLess(_, _)
NameLess(a, b) ==
    IF b = <<>> THEN FALSE
    ELSE IF a = <<>> THEN TRUE
    ELSE IF Head(a) # Head(b) THEN Ord(Head(a)) < Ord(Head(b))
    ELSE NameLess(Tail(a), Tail(b))

\* os.ReadDir: the names of a directory, sorted.
RECURSIVE SortNames(_)
SortNames(names) ==
    IF names = {} THEN <<>>
    ELSE LET n == CHOOSE n \in names : \A o \in names : ~NameLess(o, n)
         IN  <<n>> \o SortNames(names \ {n})

\* A tree is its set of non-directory entries; the directories are the
\* proper prefixes of their paths.
Below(tree, dir) ==
    {e \in tree : Len(e.path) > Len(dir) /\ SubSeq(e.path, 1, Len(dir)) = dir}
Children(tree, dir) == {e.path[Len(dir) + 1] : e \in Below(tree, dir)}
IsDir(tree, path) == Below(tree, path) # {}
EntryAt(tree, path) == CHOOSE e \in tree : e.path = path

AllowedExts == {"go", "py"}

\* The tests of Walk's callback on a non-directory entry, with the size
\* limit one byte low.
AcceptsBelowMax(e) ==
    /\ ~e.symlink
    /\ e.ext \in AllowedExts
    /\ e.statOk
    /\ ~(e.size >= maxFileSize \/ e.size = 0)

\* The tests of Walk's callback on a non-directory entry.
Accepts(e) ==
    /\ ~e.symlink
    /\ e.ext \in AllowedExts
    /\ e.statOk
    /\ ~(e.size > maxFileSize \/ e.size = 0)

FileInfoOf(e, sep) == [RelPath |-> ToSlash(Rel(e.path, sep), sep), Size |-> e.size]

\* filepath.WalkDir with Walk's callback: the files sent, in order, and the
\* directories the callback answered with SkipDir.
RECURSIVE WalkEntries(_, _, _, _, _)
RECURSIVE Visit(_, _, _, _)
Visit(tree, ignores, sep, path) ==
    IF IsDir(tree, path)
    THEN IF matchesIgnore(path[Len(path)], ToSlash(Rel(path, sep), sep), ignores, sep)
         THEN [files |-> <<>>, skipped |-> {path}]
         ELSE WalkEntries(tree, ignores, sep, path, SortNames(Children(tree, path)))
    ELSE LET e == EntryAt(tree, path)
         IN  [files |-> IF Accepts(e) THEN <<FileInfoOf(e, sep)>> ELSE <<>>,
              skipped |-> {}]

WalkEntries(tree, ignores, sep, dir, names) ==
    IF names = <<>> THEN [files |-> <<>>, skipped |-> {}]
    ELSE LET here == Visit(tree, ignores, sep, Append(dir, Head(names)))
             rest == WalkEntries(tree, ignores, sep, dir, Tail(names))
         IN  [files |-> here.files \o rest.files,
              skipped |-> here.skipped \cup rest.skipped]

\* Walk: the root itself is never tested against the patterns.
Walk(tree, ignores, sep) ==
    WalkEntries(tree, ignores, sep, <<>>, SortNames(Children(tree, <<>>)))

\* ------------------------------------------------------------------- store

EmptyDB == [files |-> {}, chunks |-> {}, vec_chunks |-> {}, chunks_fts |-> {},
            meta |-> {}, seq_files |-> 0, seq_chunks |-> 0]

FileRows(db, path) == {f \in db.files : f.path = path}

GetFileHash(db, path) ==
    IF FileRows(db, path) = {} THEN ""
    ELSE (CHOOSE f \in FileRows(db, path) : TRUE).hash

ChunkIdsOfFile(db, fileID) == {c.id : c \in {c \in db.chunks : c.file_id = fileID}}

\* UpsertExisting with the chunk delete lacking its WHERE clause.
UpsertExistingAllChunks(db, existingID, f) ==
    LET cids == ChunkIdsOfFile(db, existingID)
    IN  [db EXCEPT
           !.vec_chunks = {v \in db.vec_chunks : v.chunk_id \notin cids},
           !.chunks     = {},
           !.chunks_fts = {},
           !.files      = {IF r.id = existingID THEN [r EXCEPT !.hash = f.hash] ELSE r
                           : r \in db.files}]

\* UpsertExisting writing the record anew (INSERT OR REPLACE): the columns
\* not given fall back to their defaults.
UpsertExistingReplace(db, existingID, f) ==
    LET cids == ChunkIdsOfFile(db, existingID)
    IN  [db EXCEPT
           !.vec_chunks = {v \in db.vec_chunks : v.chunk_id \notin cids},
           !.chunks     = {c \in db.chunks : c.file_id # existingID},
           !.chunks_fts = {r \in db.chunks_fts : r.rowid \notin cids},
           !.files      = {IF r.id = existingID
                           THEN [id |-> r.id, path |-> r.path, hash |-> f.hash, summary |-> ""]
                           ELSE r : r \in db.files}]

\* The existing-record branch of UpsertFile: delete the file's embeddings and
\* chunks (the delete trigger removes the lexical rows), update the record.
UpsertExisting(db, existingID, f) ==
    LET cids == ChunkIdsOfFile(db, existingID)
    IN  [db EXCEPT
           !.vec_chunks = {v \in db.vec_chunks : v.chunk_id \notin cids},
           !.chunks     = {c \in db.chunks : c.file_id # existingID},
           !.chunks_fts = {r \in db.chunks_fts : r.rowid \notin cids},
           !.files      = {IF r.id = existingID THEN [r EXCEPT !.hash = f.hash] ELSE r
                           : r \in db.files}]

\* UpsertInsert with the hash column left out of the INSERT.
UpsertInsertNoHash(db, f) ==
    [db EXCEPT
       !.files     = db.files \cup {[id |-> db.seq_files + 1, path |-> f.path,
                                     hash |-> "", summary |-> ""]},
       !.seq_files = db.seq_files + 1]

\* The new-record branch of UpsertFile.
UpsertInsert(db, f) ==
    [db EXCEPT
       !.files     = db.files \cup {[id |-> db.seq_files + 1, path |-> f.path,
                                     hash |-> f.hash, summary |-> ""]},
       !.seq_files = db.seq_files + 1]

\* UpsertFile without the lookup of an existing record.
UpsertFileAlwaysInsert(db, f) == [db |-> UpsertInsert(db, f), id |-> db.seq_files + 1]

\* UpsertFile, committed: the new store and the returned file id.
UpsertFile(db, f) ==
    IF FileRows(db, f.path) # {}
    THEN LET existingID == (CHOOSE r \in FileRows(db, f.path) : TRUE).id
         IN  [db |-> UpsertExisting(db, existingID, f), id |-> existingID]
    ELSE [db |-> UpsertInsert(db, f), id |-> db.seq_files + 1]

\* The rows InsertChunks' loop inserts for chunks 1..n: an empty Metadata is
\* stored as {}.
ChunkRows(fileID, chunks, ids, n) ==
    {[id |-> ids[i], file_id |-> fileID, content |-> chunks[i].content,
      metadata |-> IF chunks[i].metadata = "" THEN "{}" ELSE chunks[i].metadata]
     : i \in 1..n}

\* The first statement of InsertChunks that fails, 0 when none does: Exec i
\* for i in 1..Len(chunks), the commit for Len(chunks) + 1.  failAt is the
\* statement the environment fails; the foreign key on file_id fails Exec 1.
FirstFailure(db, fileID, chunks, failAt) ==
    IF chunks # <<>> /\ \A f \in db.files : f.id # fileID THEN 1 ELSE failAt

\* InsertChunks without the transaction: the rows inserted before the
\* failing statement stay.
InsertChunksPartial(db, fileID, chunks, failAt) ==
    LET ids  == [i \in 1..Len(chunks) |-> db.seq_chunks + i]
        stop == FirstFailure(db, fileID, chunks, failAt)
        n    == IF stop = 0 THEN Len(chunks) ELSE stop - 1
        rows == ChunkRows(fileID, chunks, ids, n)
    IN  [ok  |-> stop = 0,
         db  |-> [db EXCEPT
                    !.chunks = db.chunks \cup rows,
                    !.chunks_fts = db.chunks_fts \cup
                        {[rowid |-> r.id, content |-> r.content] : r \in rows},
                    !.seq_chunks = db.seq_chunks + n],
         ids |-> IF stop = 0 THEN ids ELSE <<>>]

\* InsertChunks: one transaction; the insert trigger fills chunks_fts.  When
\* a statement fails the deferred tx.Rollback() undoes the rows inserted so
\* far and no id is returned.
InsertChunks(db, fileID, chunks, failAt) ==
    LET ids  == [i \in 1..Len(chunks) |-> db.seq_chunks + i]
        stop == FirstFailure(db, fileID, chunks, failAt)
        rows == ChunkRows(fileID, chunks, ids, Len(chunks))
    IN  IF stop # 0
        THEN [ok |-> FALSE, db |-> db, ids |-> <<>>]
        ELSE [ok  |-> TRUE,
              db  |-> [db EXCEPT
                         !.chunks = db.chunks \cup rows,
                         !.chunks_fts = db.chunks_fts \cup
                             {[rowid |-> r.id, content |-> r.content] : r \in rows},
                         !.seq_chunks = db.seq_chunks + Len(chunks)],
              ids |-> ids]

\* Exec i of InsertEmbeddings fails in the store: vec_chunks takes vectors of
\* EmbeddingDim floats only, and chunk_id is its primary key.
RejectedRow(db, chunkIDs, embeddings, i) ==
    \/ embeddings[i].dim # EmbeddingDim
    \/ \E v \in db.vec_chunks : v.chunk_id = chunkIDs[i]
    \/ \E j \in 1..(i - 1) : chunkIDs[j] = chunkIDs[i]

\* The first statement of InsertEmbeddings that fails, 0 when none does:
\* Exec i for i in 1..Len(chunkIDs), the commit for Len(chunkIDs) + 1.
\* failAt is the statement the environment fails.
FirstRejected(db, chunkIDs, embeddings, failAt) ==
    LET n   == Len(chunkIDs)
        bad == {i \in 1..n : i = failAt \/ RejectedRow(db, chunkIDs, embeddings, i)}
    IN  IF bad # {} THEN CHOOSE i \in bad : \A j \in bad : i <= j
        ELSE IF failAt = n + 1 THEN n + 1 ELSE 0

\* InsertEmbeddings without the transaction: the vectors inserted before
\* the failing statement stay.
InsertEmbeddingsPartial(db, chunkIDs, embeddings, failAt) ==
    IF Len(chunkIDs) # Len(embeddings) THEN [ok |-> FALSE, db |-> db]
    ELSE LET stop == FirstRejected(db, chunkIDs, embeddings, failAt)
             n    == IF stop = 0 THEN Len(chunkIDs) ELSE stop - 1
         IN  [ok |-> stop = 0,
              db |-> [db EXCEPT !.vec_chunks = db.vec_chunks \cup
                         {[chunk_id |-> chunkIDs[i], embedding |-> embeddings[i]]
                          : i \in 1..n}]]

\* InsertEmbeddings: the length check before anything else, then one
\* transaction; when a statement fails the deferred tx.Rollback() undoes
\* the vectors inserted so far.
InsertEmbeddings(db, chunkIDs, embeddings, failAt) ==
    IF Len(chunkIDs) # Len(embeddings) THEN [ok |-> FALSE, db |-> db]
    ELSE IF FirstRejected(db, chunkIDs, embeddings, failAt) # 0
    THEN [ok |-> FALSE, db |-> db]
    ELSE [ok |-> TRUE,
          db |-> [db EXCEPT !.vec_chunks = db.vec_chunks \cup
                     {[chunk_id |-> chunkIDs[i], embedding |-> embeddings[i]]
                      : i \in 1..Len(chunkIDs)}]]

GetMeta(db, key) ==
    IF \E m \in db.meta : m.key = key
    THEN (CHOOSE m \in db.meta : m.key = key).value
    ELSE ""

\* QueryRow(...).Scan as GetFileHash and GetMeta handle it: sql.ErrNoRows is
\* answered with "" and no error, any other error is returned.
Scanned(value, failed) ==
    IF failed THEN [value |-> "", ok |-> FALSE] ELSE [value |-> value, ok |-> TRUE]

\* SetMeta as a plain INSERT into a table without its primary key.
SetMetaInsert(db, key, value) ==
    [db EXCEPT !.meta = db.meta \cup {[key |-> key, value |-> value]}]

\* SetMeta: INSERT ... ON CONFLICT(key) DO UPDATE.
SetMeta(db, key, value) ==
    [db EXCEPT !.meta = {m \in db.meta : m.key # key} \cup {[key |-> key, value |-> value]}]

DeleteAllChunks(db) ==
    [db EXCEPT !.vec_chunks = {}, !.chunks = {}, !.chunks_fts = {}, !.files = {}]

\* DeleteAllChunks without the transaction: the deletes made before the
\* failing statement stay.
DeleteAllChunksNoTx(db, failAt) ==
    LET done == IF failAt = 0 THEN 4 ELSE failAt - 1
    IN  [ok |-> failAt = 0,
         db |-> [db EXCEPT
                   !.vec_chunks = IF done >= 1 THEN {} ELSE db.vec_chunks,
                   !.chunks     = IF done >= 2 THEN {} ELSE db.chunks,
                   !.chunks_fts = IF done >= 2 THEN {} ELSE db.chunks_fts,
                   !.files      = IF done >= 3 THEN {} ELSE db.files]]

\* DeleteAllChunks with the statement that fails, 0 when none does: the
\* three deletes are 1..3, the commit is 4.  The deferred tx.Rollback()
\* undoes the deletes made before it.
DeleteAllChunksTx(db, failAt) ==
    IF failAt # 0 THEN [ok |-> FALSE, db |-> db]
    ELSE [ok |-> TRUE, db |-> DeleteAllChunks(db)]

\* --------------------------------------------------------------- retrieval

\* A search result: Chunk.ID, and the search it came from standing for the
\* other fields of the row.
HitIds == 1..(MaxHits + 1)
FtsHits == [id : HitIds, from : {"fts"}]
VecHits == [id : HitIds, from : {"vec"}]
ListsOf(S) == UNION {[1..n -> S] : n \in 0..MaxHits}

\* DedupAppend without the seen map.
RECURSIVE AppendAll(_, _, _)
AppendAll(merged, results, i) ==
    IF i > Len(results) THEN merged
    ELSE AppendAll(Append(merged, results[i]), results, i + 1)

\* for _, r := range results { if !seen[r.Chunk.ID] { ...append } }: seen
\* holds the ids of merged.
RECURSIVE DedupAppend(_, _, _)
DedupAppend(merged, results, i) ==
    IF i > Len(results) THEN merged
    ELSE IF \E j \in 1..Len(merged) : merged[j].id = results[i].id
         THEN DedupAppend(merged, results, i + 1)
         ELSE DedupAppend(Append(merged, results[i]), results, i + 1)

\* Merge with the two loops exchanged.
MergeVectorFirst(ftsResults, vecResults) ==
    DedupAppend(DedupAppend(<<>>, vecResults, 1), ftsResults, 1)

\* HybridRetrieve, the merge: lexical results first, then vector results.
Merge(ftsResults, vecResults) ==
    DedupAppend(DedupAppend(<<>>, ftsResults, 1), vecResults, 1)

\* Truncate keeping the end of the list: merged[len(merged)-k:].
TruncateTail(merged, k) ==
    IF Len(merged) > k THEN SubSeq(merged, Len(merged) - k + 1, Len(merged)) ELSE merged

\* if len(merged) > k { merged = merged[:k] }
Truncate(merged, k) == IF Len(merged) > k THEN SubSeq(merged, 1, k) ELSE merged

\* HybridRetrieve returning the lexical search's error.
HybridRetrieveFtsFatal(fts, ftsErr, embErr, vec, vecErr, k) ==
    IF ftsErr THEN [results |-> <<>>, err |-> "fts search"]
    ELSE IF embErr THEN [results |-> <<>>, err |-> "embed query"]
    ELSE IF vecErr THEN [results |-> <<>>, err |-> "vector search"]
    ELSE [results |-> Truncate(Merge(fts, vec), k), err |-> ""]

\* HybridRetrieve: fts, vec are what FTSSearch and Search return, the flags
\* say which of FTSSearch, EmbedSingle and Search fail.
HybridRetrieve(fts, ftsErr, embErr, vec, vecErr, k) ==
    LET ftsResults == IF ftsErr THEN <<>> ELSE fts
    IN  IF embErr THEN [results |-> <<>>, err |-> "embed query"]
        ELSE IF vecErr THEN [results |-> <<>>, err |-> "vector search"]
        ELSE [results |-> Truncate(Merge(ftsResults, vec), k), err |-> ""]

\* ------------------------------------------------------ decisions of the code

\* Unchanged with || for &&.
UnchangedOrNoError(lookupFailed, existing, hash) == ~lookupFailed \/ existing = hash

\* runPipeline, hash stage: err == nil && existing == hash.
Unchanged(lookupFailed, existing, hash) == ~lookupFailed /\ existing = hash

\* ModelChanged without the test for a model recorded at all.
ModelChangedNoEmptyCheck(lastModel, model) == lastModel # model

\* Indexer.Index: lastModel != "" && lastModel != idx.config.Model.
ModelChanged(lastModel, model) == lastModel # "" /\ lastModel # model


\* ------------------------------------------------------------------- state

VARIABLES
    disk,           \* the tree: path -> bytes, "unreadable" or "absent"
    db,             \* the SQLite database
    pc,             \* Indexer.Index: "idle", "pipeline" or "summarize"
    config,         \* idx.config.Model of the current (last) call
    runsLeft,       \* calls of Index still to come
    faultsLeft,     \* failures of external calls still to come
    walkNext,       \* the walker's position in the (lexical) walk order
    walkSt,         \* "idle", "running", or "done" (files and errs closed)
    walkErr,        \* an error was sent on walkErrCh
    fileCh,         \* walker -> hash workers, capacity FileChCap
    hashHeld,       \* fileWork items hash workers are blocked sending
    workCh,         \* hash -> chunk workers, capacity numWorkers
    workClosed,
    chunkHeld,      \* chunkBatch items chunk workers are blocked sending
    chunkCh,        \* chunk workers -> embed worker, capacity numWorkers
    chunkClosed,
    embedSt,        \* embed worker: "run" or "done"
    embedHeld,      \* the embeddedBatch the embed worker is sending, if any
    embedErr,
    embeddedCh,     \* embed worker -> store worker, capacity 4
    embeddedClosed,
    storeSt,        \* store worker: "recv", "chunks", "embs" or "done"
    storeCur,       \* the batch the store worker is persisting, if any
    storeErr,
    filesTotal,     \* atomic counter of the hash stage
    stats,          \* FilesIndexed and ChunksTotal, owned by the store worker
    progress,       \* the calls of onProgress of the current run: processed, total
    pipeRet,        \* what runPipeline returned last
    result,         \* what Index returned last
    snap,           \* history: the database when the current call began
    prev,           \* history: outcome, model and failed call of the call before
    changed,        \* history: paths edited since the last call began
    runChanged,     \* history: paths edited between the last two calls
    lookupFailures, \* history: failed GetFileHash calls of the current call
    skippedUnchanged, \* history: files the hash stage dropped as unchanged
    handed,         \* history: paths of the batches sent on embeddedCh
    last,           \* the last direct call of a store operation and its return
    retrieval,      \* the last call of HybridRetrieve and its return
    pureCall,       \* the last call of a function of the chunker or walker
    chat,           \* the chat session: the command's loop or the screen's chatModel
    onProgress      \* runPipeline's onProgress argument is not nil

storeVars == <<db>>
pipeVars == <<walkNext, walkSt, walkErr, fileCh, hashHeld, workCh, workClosed,
              chunkHeld, chunkCh, chunkClosed, embedSt, embedHeld, embedErr,
              embeddedCh, embeddedClosed, storeSt, storeCur, storeErr,
              filesTotal, stats, progress>>
apiVars == <<last, retrieval, pureCall, chat, onProgress>>
histVars == <<snap, prev, changed, runChanged, lookupFailures, skippedUnchanged, handed,
              apiVars>>
vars == <<disk, db, pc, config, runsLeft, faultsLeft, pipeVars, pipeRet, result,
          histVars>>

ZeroStats == [FilesTotal |-> 0, FilesIndexed |-> 0, FilesSkipped |-> 0, ChunksTotal |-> 0]
NoResult == [err |-> "not run", cause |-> NoErr, hasStats |-> FALSE, stats |-> ZeroStats]

\* No store operation has been called directly; no retrieval has been made.
NoCall == [op |-> "none", path |-> 0, hash |-> "", fileID |-> 0, chunkIDs |-> <<>>,
           n |-> 0, ok |-> TRUE, id |-> 0, ids |-> <<>>, chunks |-> <<>>,
           embeddings |-> <<>>, key |-> "", value |-> "", failed |-> FALSE]
NoPure == [fn |-> "none"]
\* No chat session is open.
NoChat == [ui |-> "none"]
NoRetrieval == [fts |-> <<>>, ftsErr |-> FALSE, embedErr |-> FALSE, vec |-> <<>>,
                vecErr |-> FALSE, k |-> 0, results |-> <<>>, err |-> ""]

\* A failed call: the Go return value (nil, err).
Failure(err, cause) == [err |-> err, cause |-> cause, hasStats |-> FALSE, stats |-> ZeroStats]

\* Whether the next external call may fail.
MayFail == IF faultsLeft > 0 THEN {FALSE, TRUE} ELSE {FALSE}

\* The pipeline's variables before runPipeline starts and after it returns.
PipelineIs(w) ==
    /\ walkNext' = 1 /\ walkSt' = w /\ walkErr' = FALSE
    /\ fileCh' = <<>> /\ hashHeld' = {}
    /\ workCh' = <<>> /\ workClosed' = FALSE /\ chunkHeld' = {}
    /\ chunkCh' = <<>> /\ chunkClosed' = FALSE
    /\ embedSt' = "run" /\ embedHeld' = <<>> /\ embedErr' = NoErr
    /\ embeddedCh' = <<>> /\ embeddedClosed' = FALSE
    /\ storeSt' = "recv" /\ storeCur' = <<>> /\ storeErr' = NoErr
    /\ filesTotal' = 0 /\ stats' = [FilesIndexed |-> 0, ChunksTotal |-> 0]
    /\ progress' = <<>>

InitIdle ==
    /\ pc = "idle" /\ config = "A"
    /\ walkNext = 1 /\ walkSt = "idle" /\ walkErr = FALSE
    /\ fileCh = <<>> /\ hashHeld = {}
    /\ workCh = <<>> /\ workClosed = FALSE /\ chunkHeld = {}
    /\ chunkCh = <<>> /\ chunkClosed = FALSE
    /\ embedSt = "run" /\ embedHeld = <<>> /\ embedErr = NoErr
    /\ embeddedCh = <<>> /\ embeddedClosed = FALSE
    /\ storeSt = "recv" /\ storeCur = <<>> /\ storeErr = NoErr
    /\ filesTotal = 0 /\ stats = [FilesIndexed |-> 0, ChunksTotal |-> 0]
    /\ progress = <<>>
    /\ pipeRet = NoResult /\ result = NoResult
    /\ snap = EmptyDB /\ prev = [ok |-> FALSE, model |-> "A", cause |-> NoErr]
    /\ changed = {} /\ runChanged = {} /\ lookupFailures = 0
    /\ skippedUnchanged = 0 /\ handed = {}
    /\ last = NoCall /\ retrieval = NoRetrieval

\* A store just opened on a new database file.
InitCommon == db = EmptyDB /\ pureCall = NoPure /\ chat = NoChat /\ onProgress = TRUE /\ InitIdle

\* A small tree, indexed MaxRuns times and edited in between.
Init ==
    /\ InitCommon
    /\ disk = [p \in Paths |-> IF p \in TreePaths THEN "b1" ELSE "absent"]
    /\ runsLeft = MaxRuns
    /\ faultsLeft = MaxFaults

\* ------------------------------------------------------------- environment

\* Between two calls of Index a file of the tree is rewritten or made
\* unreadable.
Edit ==
    \E p \in TreePaths, v \in Contents \cup {"unreadable"} :
        /\ pc = "idle" /\ runsLeft > 0
        /\ v # disk[p]
        /\ disk' = [disk EXCEPT ![p] = v]
        /\ changed' = changed \cup {p}
        /\ UNCHANGED <<db, pc, config, runsLeft, faultsLeft, pipeVars, pipeRet, result,
                       snap, prev, runChanged, lookupFailures, skippedUnchanged,
                       handed, apiVars>>

\* ------------------------------------------------------------ Indexer.Index

Outcomes == {"ok", "get meta", "delete all chunks"}

\* Index up to the start of runPipeline: GetMeta, the model comparison and
\* DeleteAllChunks.  outcome names the call that fails, if one does.
IndexBegin ==
    \E model \in Models, outcome \in Outcomes :
        /\ pc = "idle" /\ runsLeft > 0
        /\ outcome # "ok" => faultsLeft > 0
        /\ outcome = "delete all chunks" => ModelChanged(GetMeta(db, "embedding_model"), model)
        /\ runsLeft' = runsLeft - 1
        /\ faultsLeft' = IF outcome = "ok" THEN faultsLeft ELSE faultsLeft - 1
        /\ config' = model
        /\ snap' = db
        /\ prev' = [ok |-> result.err = "", model |-> config, cause |-> result.cause]
        /\ runChanged' = changed /\ changed' = {} /\ lookupFailures' = 0
        /\ skippedUnchanged' = 0 /\ handed' = {}
        /\ IF outcome = "ok"
           THEN /\ db' = IF ModelChanged(GetMeta(db, "embedding_model"), model)
                         THEN DeleteAllChunks(db) ELSE db
                /\ pc' = "pipeline"
                /\ PipelineIs("running")
                /\ UNCHANGED result
           ELSE /\ result' = Failure(outcome, NoErr)
                /\ PipelineIs("idle")
                /\ UNCHANGED <<db, pc>>
        /\ UNCHANGED <<disk, pipeRet, apiVars>>

\* ------------------------------------------------------------ stage 1: walk

Eligible(p) == disk[p] # "absent"
Pending == {p \in Paths : p >= walkNext /\ Eligible(p)}
NextPath == CHOOSE p \in Pending : \A q \in Pending : p <= q

\* filepath.Abs fails: the error is sent and both channels are closed.
WalkFail ==
    /\ pc = "pipeline" /\ walkSt = "running" /\ walkNext = 1
    /\ faultsLeft > 0 /\ faultsLeft' = faultsLeft - 1
    /\ walkErr' = TRUE /\ walkSt' = "done"
    /\ UNCHANGED <<disk, db, pc, config, runsLeft, walkNext, fileCh, hashHeld, workCh,
                   workClosed, chunkHeld, chunkCh, chunkClosed, embedSt, embedHeld,
                   embedErr, embeddedCh, embeddedClosed, storeSt, storeCur, storeErr,
                   filesTotal, stats, progress, pipeRet, result, histVars>>

\* files <- FileInfo{...}: blocks while the buffer is full.
WalkEmit ==
    /\ pc = "pipeline" /\ walkSt = "running"
    /\ Pending # {}
    /\ Len(fileCh) < FileChCap
    /\ fileCh' = Append(fileCh, NextPath)
    /\ walkNext' = NextPath + 1
    /\ UNCHANGED <<disk, db, pc, config, runsLeft, faultsLeft, walkSt, walkErr, hashHeld,
                   workCh, workClosed, chunkHeld, chunkCh, chunkClosed, embedSt,
                   embedHeld, embedErr, embeddedCh, embeddedClosed, storeSt, storeCur,
                   storeErr, filesTotal, stats, progress, pipeRet, result, histVars>>

\* WalkDir returns: the deferred close(errs) and close(files) run.
WalkClose ==
    /\ pc = "pipeline" /\ walkSt = "running"
    /\ Pending = {}
    /\ walkSt' = "done"
    /\ UNCHANGED <<disk, db, pc, config, runsLeft, faultsLeft, walkNext, walkErr, fileCh,
                   hashHeld, workCh, workClosed, chunkHeld, chunkCh, chunkClosed,
                   embedSt, embedHeld, embedErr, embeddedCh, embeddedClosed, storeSt,
                   storeCur, storeErr, filesTotal, stats, progress, pipeRet, result, histVars>>

\* Variables no stage of the pipeline writes.
callVars == <<disk, pc, config, runsLeft, pipeRet, result, snap, prev, changed, runChanged,
              apiVars>>
hashVars == <<callVars, lookupFailures, skippedUnchanged>>
outerVars == <<hashVars, handed>>

\* ----------------------------------------------------- stage 2: hash + check

\* One iteration of a hash worker up to its send: receive, count, read,
\* hash, look the stored hash up, and drop the file or keep it for sending.
HashTake ==
    \E lookupFailed \in MayFail :
        /\ pc = "pipeline"
        /\ fileCh # <<>>
        /\ Cardinality(hashHeld) < NumWorkers
        /\ LET fi   == Head(fileCh)
               src  == disk[fi]
               hash == Sha256(src)
               existing == IF lookupFailed THEN "" ELSE GetFileHash(db, fi)
           IN  /\ lookupFailed => (faultsLeft > 0 /\ src # "unreadable")
               /\ faultsLeft' = IF lookupFailed THEN faultsLeft - 1 ELSE faultsLeft
               /\ hashHeld' = IF src = "unreadable" \/ Unchanged(lookupFailed, existing, hash)
                              THEN hashHeld
                              ELSE hashHeld \cup {[path |-> fi, hash |-> hash, src |-> src]}
               /\ skippedUnchanged' =
                      IF src # "unreadable" /\ Unchanged(lookupFailed, existing, hash)
                      THEN skippedUnchanged + 1 ELSE skippedUnchanged
        /\ lookupFailures' = IF lookupFailed THEN lookupFailures + 1 ELSE lookupFailures
        /\ fileCh' = Tail(fileCh)
        /\ filesTotal' = filesTotal + 1
        /\ UNCHANGED <<db, callVars, handed, walkNext, walkSt, walkErr, workCh, workClosed,
                       chunkHeld, chunkCh, chunkClosed, embedSt, embedHeld, embedErr,
                       embeddedCh, embeddedClosed, storeSt, storeCur, storeErr, stats, progress>>

\* A send on workCh that never blocks, as if the channel had no capacity limit.
HashSendUnbounded ==
    \E w \in hashHeld :
        /\ pc = "pipeline"
        /\ w \in hashHeld
        /\ workCh' = Append(workCh, w)
        /\ hashHeld' = hashHeld \ {w}
        /\ UNCHANGED <<db, outerVars, faultsLeft, walkNext, walkSt, walkErr, fileCh,
                       workClosed, chunkHeld, chunkCh, chunkClosed, embedSt, embedHeld,
                       embedErr, embeddedCh, embeddedClosed, storeSt, storeCur, storeErr,
                       filesTotal, stats, progress>>

\* workCh <- fileWork{...}
HashSend ==
    \E w \in hashHeld :
        /\ pc = "pipeline"
        /\ w \in hashHeld
        /\ Len(workCh) < NumWorkers
        /\ workCh' = Append(workCh, w)
        /\ hashHeld' = hashHeld \ {w}
        /\ UNCHANGED <<db, outerVars, faultsLeft, walkNext, walkSt, walkErr, fileCh,
                       workClosed, chunkHeld, chunkCh, chunkClosed, embedSt, embedHeld,
                       embedErr, embeddedCh, embeddedClosed, storeSt, storeCur, storeErr,
                       filesTotal, stats, progress>>

\* hashWg.Wait(); close(workCh): every hash worker has left its range loop.
CloseWorkCh ==
    /\ pc = "pipeline"
    /\ ~workClosed
    /\ walkSt = "done" /\ fileCh = <<>> /\ hashHeld = {}
    /\ workClosed' = TRUE
    /\ UNCHANGED <<db, outerVars, faultsLeft, walkNext, walkSt, walkErr, fileCh, hashHeld,
                   workCh, chunkHeld, chunkCh, chunkClosed, embedSt, embedHeld,
                   embedErr, embeddedCh, embeddedClosed, storeSt, storeCur, storeErr,
                   filesTotal, stats, progress>>

\* ------------------------------------------------------------ stage 3: chunk

\* One iteration of a chunk worker up to its send; a file without chunks is
\* dropped.
ChunkTake ==
    /\ pc = "pipeline"
    /\ workCh # <<>>
    /\ Cardinality(chunkHeld) < NumWorkers
    /\ LET w      == Head(workCh)
           chunks == Chunk(w.path, w.src)
       IN  chunkHeld' = IF Len(chunks) > 0
                        THEN chunkHeld \cup {[work |-> w, chunks |-> chunks]}
                        ELSE chunkHeld
    /\ workCh' = Tail(workCh)
    /\ UNCHANGED <<db, outerVars, faultsLeft, walkNext, walkSt, walkErr, fileCh, hashHeld,
                   workClosed, chunkCh, chunkClosed, embedSt, embedHeld, embedErr,
                   embeddedCh, embeddedClosed, storeSt, storeCur, storeErr,
                   filesTotal, stats, progress>>

\* chunkCh <- chunkBatch{...}
ChunkSend ==
    \E b \in chunkHeld :
        /\ pc = "pipeline"
        /\ b \in chunkHeld
        /\ Len(chunkCh) < NumWorkers
        /\ chunkCh' = Append(chunkCh, b)
        /\ chunkHeld' = chunkHeld \ {b}
        /\ UNCHANGED <<db, outerVars, faultsLeft, walkNext, walkSt, walkErr, fileCh, hashHeld,
                       workCh, workClosed, chunkClosed, embedSt, embedHeld, embedErr,
                       embeddedCh, embeddedClosed, storeSt, storeCur, storeErr,
                       filesTotal, stats, progress>>

\* chunkWg.Wait(); close(chunkCh)
CloseChunkCh ==
    /\ pc = "pipeline"
    /\ ~chunkClosed
    /\ workClosed /\ workCh = <<>> /\ chunkHeld = {}
    /\ chunkClosed' = TRUE
    /\ UNCHANGED <<db, outerVars, faultsLeft, walkNext, walkSt, walkErr, fileCh, hashHeld,
                   workCh, workClosed, chunkHeld, chunkCh, embedSt, embedHeld, embedErr,
                   embeddedCh, embeddedClosed, storeSt, storeCur, storeErr,
                   filesTotal, stats, progress>>

\* ------------------------------------------------------------ stage 4: embed

\* EmbedTake with `continue` for `return` after a failed sub-batch.
EmbedTakeContinue ==
    \E failed \in MayFail :
        /\ pc = "pipeline"
        /\ embedSt = "run" /\ embedHeld = <<>>
        /\ chunkCh # <<>>
        /\ failed => faultsLeft > 0
        /\ LET batch == Head(chunkCh)
           IN  IF failed
               THEN /\ embedErr' = [op |-> "embed", path |-> batch.work.path]
                    /\ faultsLeft' = faultsLeft - 1
                    /\ UNCHANGED <<embedHeld, embedSt, embeddedClosed>>
               ELSE /\ embedHeld' = <<[work |-> batch.work, chunks |-> batch.chunks,
                                       embeddings |-> EmbedAll(config, batch.chunks)]>>
                    /\ UNCHANGED <<embedErr, embedSt, embeddedClosed, faultsLeft>>
        /\ chunkCh' = Tail(chunkCh)
        /\ UNCHANGED <<db, outerVars, walkNext, walkSt, walkErr, fileCh, hashHeld, workCh,
                       workClosed, chunkHeld, chunkClosed, embeddedCh, storeSt, storeCur,
                       storeErr, filesTotal, stats, progress>>

\* One iteration of the embed worker up to its send.  When a sub-batch fails
\* the worker records the error and returns; the deferred close(embeddedCh)
\* runs and chunkCh is read no more.
EmbedTake ==
    \E failed \in MayFail :
        /\ pc = "pipeline"
        /\ embedSt = "run" /\ embedHeld = <<>>
        /\ chunkCh # <<>>
        /\ failed => faultsLeft > 0
        /\ LET batch == Head(chunkCh)
           IN  IF failed
               THEN /\ embedErr' = [op |-> "embed", path |-> batch.work.path]
                    /\ embedSt' = "done" /\ embeddedClosed' = TRUE
                    /\ faultsLeft' = faultsLeft - 1
                    /\ UNCHANGED embedHeld
               ELSE /\ embedHeld' = <<[work |-> batch.work, chunks |-> batch.chunks,
                                       embeddings |-> EmbedAll(config, batch.chunks)]>>
                    /\ UNCHANGED <<embedErr, embedSt, embeddedClosed, faultsLeft>>
        /\ chunkCh' = Tail(chunkCh)
        /\ UNCHANGED <<db, outerVars, walkNext, walkSt, walkErr, fileCh, hashHeld, workCh,
                       workClosed, chunkHeld, chunkClosed, embeddedCh, storeSt, storeCur,
                       storeErr, filesTotal, stats, progress>>

\* embeddedCh <- embeddedBatch{...}
EmbedSend ==
    /\ pc = "pipeline"
    /\ embedSt = "run" /\ embedHeld # <<>>
    /\ Len(embeddedCh) < embeddedChCap
    /\ embeddedCh' = Append(embeddedCh, embedHeld[1])
    /\ embedHeld' = <<>>
    /\ handed' = handed \cup {embedHeld[1].work.path}
    /\ UNCHANGED <<db, hashVars, faultsLeft, walkNext, walkSt, walkErr, fileCh, hashHeld,
                   workCh, workClosed, chunkHeld, chunkCh, chunkClosed, embedSt,
                   embedErr, embeddedClosed, storeSt, storeCur, storeErr, filesTotal,
                   stats, progress>>

\* EmbedExit without the deferred close(embeddedCh).
EmbedExitNoClose ==
    /\ pc = "pipeline"
    /\ embedSt = "run" /\ embedHeld = <<>>
    /\ chunkCh = <<>> /\ chunkClosed
    /\ embedSt' = "done"
    /\ UNCHANGED <<db, outerVars, faultsLeft, walkNext, walkSt, walkErr, fileCh, hashHeld,
                   workCh, workClosed, chunkHeld, chunkCh, chunkClosed, embedHeld,
                   embedErr, embeddedCh, embeddedClosed, storeSt, storeCur, storeErr,
                   filesTotal, stats, progress>>

\* chunkCh is closed and drained: the range loop ends, close(embeddedCh).
EmbedExit ==
    /\ pc = "pipeline"
    /\ embedSt = "run" /\ embedHeld = <<>>
    /\ chunkCh = <<>> /\ chunkClosed
    /\ embedSt' = "done" /\ embeddedClosed' = TRUE
    /\ UNCHANGED <<db, outerVars, faultsLeft, walkNext, walkSt, walkErr, fileCh, hashHeld,
                   workCh, workClosed, chunkHeld, chunkCh, chunkClosed, embedHeld,
                   embedErr, embeddedCh, storeSt, storeCur, storeErr, filesTotal, stats, progress>>

\* ------------------------------------------------------------ stage 5: store

storeRest == <<outerVars, walkNext, walkSt, walkErr, fileCh, hashHeld, workCh,
               workClosed, chunkHeld, chunkCh, chunkClosed, embedSt, embedHeld,
               embedErr, embeddedClosed, filesTotal>>

\* Receive a batch and call UpsertFile, one transaction.
StoreUpsert ==
    \E failed \in MayFail :
        /\ pc = "pipeline"
        /\ storeSt = "recv"
        /\ embeddedCh # <<>>
        /\ failed => faultsLeft > 0
        /\ LET eb == Head(embeddedCh)
               r  == UpsertFile(db, [path |-> eb.work.path, hash |-> eb.work.hash])
           IN  IF failed
               THEN /\ storeErr' = [op |-> "upsert", path |-> eb.work.path]
                    /\ faultsLeft' = faultsLeft - 1
                    /\ UNCHANGED <<db, storeSt, storeCur>>
               ELSE /\ db' = r.db
                    /\ storeCur' = <<[eb |-> eb, fileID |-> r.id, chunkIDs |-> <<>>]>>
                    /\ storeSt' = "chunks"
                    /\ UNCHANGED <<storeErr, faultsLeft>>
        /\ embeddedCh' = Tail(embeddedCh)
        /\ UNCHANGED <<storeRest, stats, progress>>

\* The store.Chunk values the store stage builds from a batch's chunks:
\* Metadata is left at its zero value.
StoreChunks(chunks) == [i \in 1..Len(chunks) |-> [content |-> chunks[i], metadata |-> ""]]

\* InsertChunks for the batch in hand, one transaction.
StoreInsertChunks ==
    \E failed \in MayFail :
        /\ pc = "pipeline"
        /\ storeSt = "chunks"
        /\ failed => faultsLeft > 0
        /\ LET cur == storeCur[1]
               r   == InsertChunks(db, cur.fileID, StoreChunks(cur.eb.chunks),
                                   IF failed THEN 1 ELSE 0)
           IN  IF ~r.ok
               THEN /\ storeErr' = [op |-> "chunks", path |-> cur.eb.work.path]
                    /\ storeSt' = "recv" /\ storeCur' = <<>>
                    /\ faultsLeft' = IF failed THEN faultsLeft - 1 ELSE faultsLeft
                    /\ db' = r.db
               ELSE /\ db' = r.db
                    /\ storeCur' = <<[cur EXCEPT !.chunkIDs = r.ids]>>
                    /\ storeSt' = "embs"
                    /\ UNCHANGED <<storeErr, faultsLeft>>
        /\ UNCHANGED <<storeRest, embeddedCh, stats, progress>>

\* onProgress reporting the chunks stored instead of the files.
OnProgressChunks(st, total) == [processed |-> st.ChunksTotal, total |-> total]

\* The arguments of onProgress("Indexing files...", stats.FilesIndexed,
\* int(filesTotal.Load())).
OnProgress(st, total) == [processed |-> st.FilesIndexed, total |-> total]

\* InsertEmbeddings for the batch in hand, one transaction; then the stats
\* and the progress callback.
StoreInsertEmbeddings ==
    \E failed \in MayFail :
        /\ pc = "pipeline"
        /\ storeSt = "embs"
        /\ failed => faultsLeft > 0
        /\ LET cur == storeCur[1]
               r   == InsertEmbeddings(db, cur.chunkIDs, cur.eb.embeddings,
                                       IF failed THEN 1 ELSE 0)
           IN  IF ~r.ok
               THEN /\ storeErr' = [op |-> "embeddings", path |-> cur.eb.work.path]
                    /\ faultsLeft' = IF failed THEN faultsLeft - 1 ELSE faultsLeft
                    /\ db' = r.db
                    /\ UNCHANGED <<stats, progress>>
               ELSE /\ db' = r.db
                    /\ stats' = [FilesIndexed |-> stats.FilesIndexed + 1,
                                 ChunksTotal |-> stats.ChunksTotal + Len(cur.eb.chunks)]
                    /\ progress' = IF onProgress
                                   THEN Append(progress, OnProgress(stats', filesTotal))
                                   ELSE progress
                    /\ UNCHANGED <<storeErr, faultsLeft>>
        /\ storeSt' = "recv" /\ storeCur' = <<>>
        /\ UNCHANGED <<storeRest, embeddedCh>>

\* embeddedCh is closed and drained: the store worker is done.
StoreExit ==
    /\ pc = "pipeline"
    /\ storeSt = "recv"
    /\ embeddedCh = <<>> /\ embeddedClosed
    /\ storeSt' = "done"
    /\ UNCHANGED <<db, storeRest, faultsLeft, embeddedCh, storeCur, storeErr, stats, progress>>

\* --------------------------------------------- runPipeline's join and return

\* The value runPipeline returns once storeWg, embedWg and walkErrCh let it.
RunPipelineReturn ==
    LET st == [FilesTotal   |-> filesTotal,
               FilesIndexed |-> stats.FilesIndexed,
               FilesSkipped |-> filesTotal - stats.FilesIndexed,
               ChunksTotal  |-> stats.ChunksTotal]
    IN  IF walkErr THEN Failure("walk error", NoErr)
        ELSE IF embedErr # NoErr
             THEN [err |-> "embedding failed", cause |-> embedErr, hasStats |-> TRUE, stats |-> st]
        ELSE IF storeErr # NoErr
             THEN [err |-> "storage failed", cause |-> storeErr, hasStats |-> TRUE, stats |-> st]
        ELSE [err |-> "", cause |-> NoErr, hasStats |-> TRUE, stats |-> st]

\* Index on an error of runPipeline: return nil, err.
IndexOnPipelineError(ret) == Failure(ret.err, ret.cause)

\* storeWg.Wait(), embedWg.Wait() and the receive from walkErrCh succeed;
\* runPipeline returns and Index goes on to SetMeta.  Goroutines of the
\* stages that are still blocked are left behind.
IndexJoin ==
    \E setMetaFailed \in MayFail :
        /\ pc = "pipeline"
        /\ storeSt = "done" /\ embedSt = "done" /\ walkSt = "done"
        /\ LET ret == RunPipelineReturn
           IN  /\ setMetaFailed => (faultsLeft > 0 /\ ret.err = "")
               /\ pipeRet' = ret
               /\ faultsLeft' = IF setMetaFailed THEN faultsLeft - 1 ELSE faultsLeft
               /\ IF ret.err # ""
                  THEN /\ result' = IndexOnPipelineError(ret)
                       /\ pc' = "idle"
                       /\ UNCHANGED db
                  ELSE IF setMetaFailed
                  THEN /\ result' = Failure("set meta", NoErr)
                       /\ pc' = "idle"
                       /\ UNCHANGED db
                  ELSE /\ db' = SetMeta(db, "embedding_model", config)
                       /\ IF ret.stats.FilesIndexed > 0
                          THEN pc' = "summarize" /\ UNCHANGED result
                          ELSE pc' = "idle" /\ result' = ret
        /\ PipelineIs("idle")
        /\ UNCHANGED <<disk, config, runsLeft, histVars>>

\* Files summarizeFiles would summarize: no summary yet, some indexed content.
NeedSummary(d) == {f \in d.files : f.summary = "" /\ ChunkIdsOfFile(d, f.id) # {}}

\* summarizeFiles and synthesizeOverview: the files of done get a summary; a
\* failure of the chat service leaves the others without, and Index returns
\* the stats all the same.
IndexSummarize ==
    \E done \in SUBSET db.files :
        /\ pc = "summarize"
        /\ done \subseteq NeedSummary(db)
        /\ done # NeedSummary(db) => faultsLeft > 0
        /\ faultsLeft' = IF done # NeedSummary(db) THEN faultsLeft - 1 ELSE faultsLeft
        /\ db' = [db EXCEPT !.files = {IF f \in done THEN [f EXCEPT !.summary = "summary"] ELSE f
                                       : f \in db.files}]
        /\ result' = pipeRet
        /\ pc' = "idle"
        /\ UNCHANGED <<disk, config, runsLeft, pipeVars, pipeRet, histVars>>

\* ------------------------------------------------------------ specifications

Pipeline ==
    \/ WalkFail \/ WalkEmit \/ WalkClose
    \/ HashTake \/ HashSend \/ CloseWorkCh
    \/ ChunkTake \/ ChunkSend \/ CloseChunkCh
    \/ EmbedTake \/ EmbedSend \/ EmbedExit
    \/ StoreUpsert \/ StoreInsertChunks \/ StoreInsertEmbeddings \/ StoreExit

Calls == IndexBegin \/ IndexJoin \/ IndexSummarize

Next == Edit \/ Calls \/ Pipeline

Spec == Init /\ [][Next]_vars

\* One call of Index on a fresh database and a tree of BigTree new files,
\* each yielding a chunk; at most one external call fails.
InitBig ==
    /\ InitCommon
    /\ disk = [p \in Paths |-> IF p \in BigPaths THEN "b1" ELSE "absent"]
    /\ runsLeft = 1
    /\ faultsLeft = MaxFaults

NextBig == Calls \/ Pipeline

SpecBig == InitBig /\ [][NextBig]_vars

\* No tree and no call of Index: the store and the retriever are called
\* directly.
InitApi ==
    /\ InitCommon
    /\ disk = [p \in Paths |-> "absent"]
    /\ runsLeft = 0
    /\ faultsLeft = 0

\* A call of HybridRetrieve with any results and failures of the searches.
\* HybridRetrieve keeps no state between calls: one call per behaviour.
Retrieve ==
    /\ pc = "idle"
    /\ retrieval = NoRetrieval
    /\ \E fts \in ListsOf(FtsHits), vec \in ListsOf(VecHits), k \in 0..MaxK,
          ftsErr \in BOOLEAN, embErr \in BOOLEAN, vecErr \in BOOLEAN :
           LET r == HybridRetrieve(fts, ftsErr, embErr, vec, vecErr, k)
           IN  retrieval' = [fts |-> fts, ftsErr |-> ftsErr, embedErr |-> embErr,
                             vec |-> vec, vecErr |-> vecErr, k |-> k,
                             results |-> r.results, err |-> r.err]
    /\ UNCHANGED <<disk, db, pc, config, runsLeft, faultsLeft, pipeVars, pipeRet,
                   result, snap, prev, changed, runChanged, lookupFailures,
                   skippedUnchanged, handed, last, pureCall, chat, onProgress>>

SpecRag == InitApi /\ [][Retrieve]_vars

\* ------------------------------------------- store operations called directly

storeIdle == <<disk, pc, config, runsLeft, faultsLeft, pipeVars, pipeRet, result, snap,
               prev, changed, runChanged, lookupFailures, skippedUnchanged, handed,
               retrieval, pureCall, chat, onProgress>>

\* UpsertFile: failed stands for an error of any statement or of the commit;
\* the deferred tx.Rollback() then undoes the transaction.
CallUpsertFile ==
    \E p \in TreePaths, c \in {"b1", "b2"}, failed \in BOOLEAN :
        LET f == [path |-> p, hash |-> Sha256(c)]
            r == UpsertFile(db, f)
        IN  /\ pc = "idle" /\ runsLeft = 0
            /\ r.db.seq_files <= MaxFileIds
            /\ db' = IF failed THEN db ELSE r.db
            /\ last' = [NoCall EXCEPT !.op = "upsert_file", !.path = p, !.hash = f.hash,
                                      !.ok = ~failed, !.id = IF failed THEN 0 ELSE r.id]
            /\ UNCHANGED storeIdle

\* The chunks of a direct call: the last has no metadata, the others have.
ApiChunks(fileID, c) ==
    [i \in 1..CaptureCount(c) |->
        [content |-> <<fileID, c, i>>,
         metadata |-> IF i = CaptureCount(c) THEN "" ELSE "{\"k\":1}"]]

\* InsertChunks for any file id, existing or not, with any statement failing.
CallInsertChunks ==
    \E fileID \in 1..MaxFileIds, c \in Contents :
        LET chunks == ApiChunks(fileID, c)
        IN  \E failAt \in 0..(Len(chunks) + 1) :
              LET r == InsertChunks(db, fileID, chunks, failAt)
              IN  /\ pc = "idle" /\ runsLeft = 0
                  /\ db.seq_chunks + Len(chunks) <= MaxChunkIds
                  /\ db' = r.db
                  /\ last' = [NoCall EXCEPT !.op = "insert_chunks", !.fileID = fileID,
                                            !.n = Len(chunks), !.chunks = chunks,
                                            !.ok = r.ok, !.ids = r.ids]
                  /\ UNCHANGED storeIdle

\* The n vectors of a direct call: vector bad, when there is one, is a float
\* short of EmbeddingDim.
ApiEmbeddings(n, bad) ==
    [i \in 1..n |-> [model |-> "A", text |-> <<"text", i>>,
                     dim |-> IF i = bad THEN EmbeddingDim - 1 ELSE EmbeddingDim]]

\* The failures of a direct call with k chunk ids and n vectors: a vector of
\* the wrong dimension or a statement the environment fails, or neither.
ApiFailures(k, n) ==
    IF k # n THEN {[bad |-> 0, failAt |-> 0]}
    ELSE {[bad |-> b, failAt |-> 0] : b \in 0..n}
         \cup {[bad |-> 0, failAt |-> f] : f \in 1..(k + 1)}

\* InsertEmbeddings for any chunk ids, existing or not, and n vectors, with
\* any one failure.
CallInsertEmbeddings ==
    \E k \in 0..2, n \in 0..2 :
        \E chunkIDs \in [1..k -> 1..MaxChunkIds], x \in ApiFailures(k, n) :
            LET embeddings == ApiEmbeddings(n, x.bad)
                failAt == x.failAt
                r == InsertEmbeddings(db, chunkIDs, embeddings, failAt)
            IN  /\ pc = "idle" /\ runsLeft = 0
                /\ db' = r.db
                /\ last' = [NoCall EXCEPT !.op = "insert_embeddings",
                                          !.chunkIDs = chunkIDs, !.n = n,
                                          !.embeddings = embeddings, !.ok = r.ok]
                /\ UNCHANGED storeIdle

\* DeleteAllChunks with any statement failing.
CallDeleteAllChunks ==
    \E failAt \in 0..4 :
        LET r == DeleteAllChunksTx(db, failAt)
        IN  /\ pc = "idle" /\ runsLeft = 0
            /\ db' = r.db
            /\ last' = [NoCall EXCEPT !.op = "delete_all_chunks", !.ok = r.ok]
            /\ UNCHANGED storeIdle

\* summarizeFiles' s.SetFileSummary(f.Path, summary) for a file of the store.
CallSetFileSummary ==
    \E p \in TreePaths :
        /\ pc = "idle" /\ runsLeft = 0
        /\ FileRows(db, p) # {}
        /\ db' = [db EXCEPT !.files = {IF f.path = p THEN [f EXCEPT !.summary = "summary"]
                                       ELSE f : f \in db.files}]
        /\ last' = [NoCall EXCEPT !.op = "set_file_summary", !.path = p]
        /\ UNCHANGED storeIdle

NextStore ==
    \/ CallUpsertFile \/ CallInsertChunks \/ CallInsertEmbeddings
    \/ CallDeleteAllChunks \/ CallSetFileSummary

SpecStore == InitApi /\ [][NextStore]_vars

\* ------------------------------------------------- the meta table, directly

MetaKeys == {"embedding_model", "schema"}

\* The store as the store stage leaves it after one file: the three
\* transactions of UpsertFile, InsertChunks and InsertEmbeddings.
Persisted(d, path, src, model) ==
    LET u  == UpsertFile(d, [path |-> path, hash |-> Sha256(src)])
        c  == InsertChunks(u.db, u.id, StoreChunks(Chunk(path, src)), 0)
        e  == InsertEmbeddings(c.db, c.ids, EmbedAll(model, Chunk(path, src)), 0)
    IN  e.db

\* A new store, and the stores a call of Index with model A leaves for a
\* tree of one file and of two.
IndexedDBs ==
    LET one == Persisted(EmptyDB, 1, "b1", "A")
        two == Persisted(one, 2, "b2", "A")
    IN  {EmptyDB, SetMeta(one, "embedding_model", "A"), SetMeta(two, "embedding_model", "A")}

InitMeta ==
    /\ InitIdle
    /\ pureCall = NoPure /\ chat = NoChat /\ onProgress = TRUE
    /\ db \in IndexedDBs
    /\ disk = [p \in Paths |-> "absent"]
    /\ runsLeft = 0
    /\ faultsLeft = 0

\* GetFileHash for any path; failed stands for an error other than
\* sql.ErrNoRows.
CallGetFileHash ==
    \E p \in BigPaths, failed \in BOOLEAN :
        LET r == Scanned(GetFileHash(db, p), failed)
        IN  /\ pc = "idle" /\ runsLeft = 0
            /\ last' = [NoCall EXCEPT !.op = "get_file_hash", !.path = p,
                                      !.failed = failed, !.ok = r.ok, !.value = r.value]
            /\ UNCHANGED <<db, storeIdle>>

CallGetMeta ==
    \E k \in MetaKeys, failed \in BOOLEAN :
        LET r == Scanned(GetMeta(db, k), failed)
        IN  /\ pc = "idle" /\ runsLeft = 0
            /\ last' = [NoCall EXCEPT !.op = "get_meta", !.key = k,
                                      !.failed = failed, !.ok = r.ok, !.value = r.value]
            /\ UNCHANGED <<db, storeIdle>>

\* SetMeta is one statement: it takes effect or fails as a whole.
CallSetMeta ==
    \E k \in MetaKeys, v \in Models, failed \in BOOLEAN :
        /\ pc = "idle" /\ runsLeft = 0
        /\ db' = IF failed THEN db ELSE SetMeta(db, k, v)
        /\ last' = [NoCall EXCEPT !.op = "set_meta", !.key = k, !.value = v,
                                  !.failed = failed, !.ok = ~failed]
        /\ UNCHANGED storeIdle

NextMeta ==
    \/ CallGetFileHash \/ CallGetMeta \/ CallSetMeta
    \/ CallDeleteAllChunks \/ CallUpsertFile

SpecMeta == InitMeta /\ [][NextMeta]_vars

\* One call on a tree whose files yield 1, embedBatchSize + 1 or
\* 2 * embedBatchSize + 1 chunks.
InitWide ==
    /\ InitCommon
    /\ \E w \in [TreePaths -> WideContents] :
          disk = [p \in Paths |-> IF p \in TreePaths THEN w[p] ELSE "absent"]
    /\ runsLeft = 1
    /\ faultsLeft = MaxFaults

SpecWide == InitWide /\ [][NextBig]_vars

\* ------------------------------------------------- the chunker, by function

\* The byte spans of syntax nodes: at least one byte each.
Spans == {c \in [startByte : 0..MaxByte, endByte : 0..MaxByte] : c.startByte < c.endByte}
CaptureLists == UNION {[1..n -> Spans] : n \in 0..MaxCaptures}

InitPure ==
    /\ InitIdle
    /\ db = EmptyDB /\ chat = NoChat /\ onProgress = TRUE
    /\ disk = [p \in Paths |-> "absent"]
    /\ runsLeft = 0
    /\ faultsLeft = 0

InitDedup ==
    /\ InitPure
    /\ \E caps \in CaptureLists :
          pureCall = [fn |-> "dedup", caps |-> caps, kept |-> <<>>, done |-> FALSE]

pureIdle == <<disk, db, pc, config, runsLeft, faultsLeft, pipeVars, pipeRet, result, snap,
              prev, changed, runChanged, lookupFailures, skippedUnchanged, handed,
              last, retrieval, chat, onProgress>>

\* Chunk's call of dedup on the captures of the query.
CallDedup ==
    /\ pureCall.fn = "dedup" /\ ~pureCall.done
    /\ pureCall' = [pureCall EXCEPT !.kept = dedup(pureCall.caps), !.done = TRUE]
    /\ UNCHANGED pureIdle

SpecDedup == InitDedup /\ [][CallDedup]_vars

\* A capture of 1..MaxLines source lines, named or not, whose enriched
\* content is at the size limit or a byte above it.
InitSplit ==
    /\ InitPure
    /\ \E name \in {"", "f"}, startLine \in {1, 7}, n \in 1..MaxLines,
          bytes \in {maxChunkBytes, maxChunkBytes + 1} :
          pureCall = [fn |-> "split",
                      cap |-> [name |-> name, kind |-> "function_declaration",
                               startLine |-> startLine, endLine |-> startLine + n - 1],
                      bytes |-> bytes, content |-> <<>>, chunks |-> <<>>,
                      done |-> FALSE]

\* Chunk's loop body for the capture: enrichContent, then the split decision.
CallChunksOfCapture ==
    /\ pureCall.fn = "split" /\ ~pureCall.done
    /\ LET cap   == pureCall.cap
           lines == enrichContent(cap.name, cap.startLine, cap.endLine)
       IN  pureCall' = [pureCall EXCEPT
                          !.content = lines,
                          !.chunks  = ChunksOfCapture(cap, lines, pureCall.bytes),
                          !.done    = TRUE]
    /\ UNCHANGED pureIdle

SpecSplit == InitSplit /\ [][CallChunksOfCapture]_vars

\* -------------------------------------------------- the walker, by function

Separators == {"/", "\\"}
DirNames == {<<"a">>, <<"a", "b">>, <<"b">>}
FileNames == {<<"a">>, <<"f">>}
PatternSet == {<<"a">>, <<"b">>, <<"f">>, <<"a", "*">>, <<"?">>,
               <<"a", "/", "b">>, <<"a", "*", "b">>}
DirPaths == UNION {[1..n -> DirNames] : n \in 0..MaxDepth}

\* What an entry is: a file at the size limits, a symlink, a file of another
\* extension, an empty or oversized file, a file d.Info() fails for.
EntryKinds ==
    {[symlink |-> FALSE, ext |-> "go",  statOk |-> TRUE,  size |-> 1],
     [symlink |-> FALSE, ext |-> "py",  statOk |-> TRUE,  size |-> maxFileSize],
     [symlink |-> TRUE,  ext |-> "go",  statOk |-> TRUE,  size |-> 1],
     [symlink |-> FALSE, ext |-> "txt", statOk |-> TRUE,  size |-> 1],
     [symlink |-> FALSE, ext |-> "go",  statOk |-> TRUE,  size |-> 0],
     [symlink |-> FALSE, ext |-> "go",  statOk |-> TRUE,  size |-> maxFileSize + 1],
     [symlink |-> FALSE, ext |-> "go",  statOk |-> FALSE, size |-> 1]}

Entries ==
    {[path |-> Append(d, f), symlink |-> k.symlink, ext |-> k.ext, statOk |-> k.statOk,
      size |-> k.size] : d \in DirPaths, f \in FileNames, k \in EntryKinds}

\* The trees of at most MaxEntries entries: no path names two entries, and
\* no entry lies below another.
RECURSIVE SetsUpTo(_)
SetsUpTo(n) ==
    IF n = 0 THEN {{}}
    ELSE LET smaller == SetsUpTo(n - 1)
         IN  smaller \cup {t \cup {e} : t \in smaller, e \in Entries}

Trees ==
    {t \in SetsUpTo(MaxEntries) :
        /\ \A e, g \in t : e.path = g.path => e = g
        /\ \A e \in t : Below(t, e.path) = {}}

InitWalk ==
    /\ InitPure
    /\ \E tree \in Trees, sep \in Separators :
       \E ignores \in UNION {[1..n -> PatternSet] : n \in 1..MaxPatterns} :
          pureCall = [fn |-> "walk", tree |-> tree, ignores |-> ignores, sep |-> sep,
                      files |-> <<>>, skipped |-> {}, done |-> FALSE]

\* Walk's goroutine, from loadIgnorePatterns to the close of the channels.
CallWalk ==
    /\ pureCall.fn = "walk" /\ ~pureCall.done
    /\ LET r == Walk(pureCall.tree, pureCall.ignores, pureCall.sep)
       IN  pureCall' = [pureCall EXCEPT !.files = r.files, !.skipped = r.skipped,
                                        !.done = TRUE]
    /\ UNCHANGED pureIdle

SpecWalk == InitWalk /\ [][CallWalk]_vars

\* ----------------------------------------------- one run without a failure

\* The bytes of the files of the tree, by position in the walk: one chunk,
\* two chunks, none, unreadable, then one chunk each.
FlowContent(p) == CASE p = 2 -> "b2" [] p = 3 -> "b0" [] p = 4 -> "unreadable" [] OTHER -> "b1"

\* One call of Index in which no external call fails, on a tree of 0 to
\* BigTree eligible files (mixed, or BigTree files of one chunk each), and on
\* a new store or one that holds file 1 unchanged, indexed under model A.
InitFlow ==
    /\ InitIdle
    /\ pureCall = NoPure /\ chat = NoChat /\ onProgress = TRUE
    /\ runsLeft = 1
    /\ faultsLeft = 0
    /\ \/ /\ db = EmptyDB
          /\ disk = [p \in Paths |-> IF p \in BigPaths THEN "b1" ELSE "absent"]
       \/ /\ db = SetMeta(Persisted(EmptyDB, 1, "b1", "A"), "embedding_model", "A")
          /\ \E n \in 0..BigTree :
                disk = [p \in Paths |-> IF p <= n THEN FlowContent(p) ELSE "absent"]

\* The steps of the stages when filepath.Abs does not fail.
FlowPipeline ==
    \/ WalkEmit \/ WalkClose
    \/ HashTake \/ HashSend \/ CloseWorkCh
    \/ ChunkTake \/ ChunkSend \/ CloseChunkCh
    \/ EmbedTake \/ EmbedSend \/ EmbedExit
    \/ StoreUpsert \/ StoreInsertChunks \/ StoreInsertEmbeddings \/ StoreExit

NextFlow == Calls \/ FlowPipeline

\* The Go scheduler runs every goroutine that can take a step, and Index
\* goes on once runPipeline can return.
SpecFlow ==
    /\ InitFlow /\ [][NextFlow]_vars
    /\ WF_vars(FlowPipeline) /\ WF_vars(IndexJoin) /\ WF_vars(IndexSummarize)

\* ------------------------------------------------------------ a deep tree

\* Index without a progress callback on a new store, over DeepTree files of
\* one chunk each: more files than the stages can hold at once.
InitDeep ==
    /\ InitIdle
    /\ db = EmptyDB /\ pureCall = NoPure /\ chat = NoChat /\ onProgress = FALSE
    /\ disk = [p \in Paths |-> "b1"]
    /\ runsLeft = 1
    /\ faultsLeft = MaxFaults

SpecDeep == InitDeep /\ [][NextBig]_vars

\* ---------------------------------------------------------- the chat session

\* What the user can have typed when Enter is pressed (or a line is read):
\* nothing, blanks, a question, or a command.
Inputs == {"", " ", "question", "/clear", "/help", "/exit"}

\* strings.TrimSpace on those texts.
TrimSpace(text) == IF text = " " THEN "" ELSE text

\* llm.Message values of the history: the n-th question and its answer.
UserMessage(n) == [Role |-> "user", Content |-> n]
AssistantMessage(n) == [Role |-> "assistant", Content |-> n]

\* if len(history) > 20 { history = history[len(history)-20:] }
Trim(history) ==
    IF Len(history) > historyLimit
    THEN SubSeq(history, Len(history) - historyLimit + 1, Len(history))
    ELSE history

\* m.history[:len(m.history)-1]
AllButLast(history) == SubSeq(history, 1, Len(history) - 1)

\* A session just started: `var history []llm.Message` of the chat command,
\* newChatModel of the screen.  cmd is the askQuestion command that is
\* running, msg the answerMsg it has sent and Update has not yet received.
\* asked, log, given and event are history: the questions submitted, the
\* entries appended to the history since it was last cleared, the history
\* and log given to BuildMessages for the question being answered, and the
\* last message handled.
NewChat(ui) ==
    [ui |-> ui, state |-> "chatIdle", input |-> "", history |-> <<>>,
     cmd |-> <<>>, msg |-> <<>>, quit |-> FALSE,
     asked |-> 0, log |-> <<>>, given |-> <<>>, event |-> "none"]

InitChat ==
    /\ InitIdle
    /\ db = EmptyDB /\ pureCall = NoPure /\ onProgress = TRUE
    /\ disk = [p \in Paths |-> "absent"]
    /\ runsLeft = 0
    /\ faultsLeft = 0
    /\ \E ui \in {"cli", "tui"} : chat = NewChat(ui)

chatIdleVars == <<disk, db, pc, config, runsLeft, faultsLeft, pipeVars, pipeRet, result,
                  snap, prev, changed, runChanged, lookupFailures, skippedUnchanged,
                  handed, last, retrieval, pureCall, onProgress>>

\* One iteration of the chat command's loop: read a line, run the command or
\* retrieve, build the messages, generate, and record the exchange.
CliLine ==
    \E line \in Inputs, retrieveFails \in BOOLEAN, generateFails \in BOOLEAN :
        LET question == TrimSpace(line)
            n == chat.asked + 1
        IN  /\ chat.ui = "cli" /\ ~chat.quit
            /\ question = "question" => chat.asked < MaxQuestions
            /\ question # "question" => (~retrieveFails /\ ~generateFails)
            /\ retrieveFails => ~generateFails
            /\ chat' =
                 CASE question = "" -> [chat EXCEPT !.event = "empty", !.given = <<>>]
                   [] question = "/exit" ->
                        [chat EXCEPT !.quit = TRUE, !.event = "/exit", !.given = <<>>]
                   [] question = "/clear" ->
                        [chat EXCEPT !.history = <<>>, !.log = <<>>, !.event = "/clear",
                                     !.given = <<>>]
                   [] question = "/help" -> [chat EXCEPT !.event = "/help", !.given = <<>>]
                   [] OTHER ->
                        IF retrieveFails
                        THEN [chat EXCEPT !.asked = n, !.event = "retrieval error",
                                          !.given = <<>>]
                        ELSE IF generateFails
                        THEN [chat EXCEPT !.asked = n, !.event = "llm error",
                                          !.given = <<[history |-> chat.history,
                                                       log |-> chat.log]>>]
                        ELSE [chat EXCEPT
                                !.asked = n, !.event = "answer",
                                !.given = <<[history |-> chat.history, log |-> chat.log]>>,
                                !.history = Trim(chat.history \o
                                                 <<UserMessage(n), AssistantMessage(n)>>),
                                !.log = chat.log \o <<UserMessage(n), AssistantMessage(n)>>]
            /\ UNCHANGED chatIdleVars

\* chatModel.Update on a key that is not Enter: while idle the text input
\* takes it; otherwise the key is dropped.
TuiKey ==
    \E text \in Inputs :
        /\ chat.ui = "tui" /\ ~chat.quit
        /\ chat' = IF chat.state # "chatIdle"
                   THEN [chat EXCEPT !.event = "key dropped"]
                   ELSE [chat EXCEPT !.input = text, !.event = "key"]
        /\ UNCHANGED chatIdleVars

\* Enter that submits the question and leaves m.state as it is.
TuiEnterStaysIdle ==
    LET question == TrimSpace(chat.input)
        n == chat.asked + 1
    IN  /\ chat.ui = "tui" /\ ~chat.quit
        /\ (chat.state = "chatIdle" /\ question = "question") => chat.asked < MaxQuestions
        /\ chat' =
             CASE chat.state # "chatIdle" -> [chat EXCEPT !.event = "enter dropped"]
               [] question = "" -> [chat EXCEPT !.event = "empty"]
               [] question = "/exit" ->
                    [chat EXCEPT !.input = "", !.quit = TRUE, !.event = "/exit"]
               [] question = "/clear" ->
                    [chat EXCEPT !.input = "", !.history = <<>>, !.log = <<>>,
                                 !.event = "/clear"]
               [] question = "/help" -> [chat EXCEPT !.input = "", !.event = "/help"]
               [] OTHER ->
                    LET history == Append(chat.history, UserMessage(n))
                    IN  [chat EXCEPT
                           !.input = "", !.asked = n, !.event = "question",
                           !.history = history,
                           !.log = Append(chat.log, UserMessage(n)),
                           !.cmd = <<[question |-> n, history |-> AllButLast(history),
                                      log |-> chat.log]>>]
        /\ UNCHANGED chatIdleVars

\* chatModel.Update on Enter.
TuiEnter ==
    LET question == TrimSpace(chat.input)
        n == chat.asked + 1
    IN  /\ chat.ui = "tui" /\ ~chat.quit
        /\ (chat.state = "chatIdle" /\ question = "question") => chat.asked < MaxQuestions
        /\ chat' =
             CASE chat.state # "chatIdle" -> [chat EXCEPT !.event = "enter dropped"]
               [] question = "" -> [chat EXCEPT !.event = "empty"]
               [] question = "/exit" ->
                    [chat EXCEPT !.input = "", !.quit = TRUE, !.event = "/exit"]
               [] question = "/clear" ->
                    [chat EXCEPT !.input = "", !.history = <<>>, !.log = <<>>,
                                 !.event = "/clear"]
               [] question = "/help" -> [chat EXCEPT !.input = "", !.event = "/help"]
               [] OTHER ->
                    LET history == Append(chat.history, UserMessage(n))
                    IN  [chat EXCEPT
                           !.input = "", !.asked = n, !.event = "question",
                           !.history = history,
                           !.log = Append(chat.log, UserMessage(n)),
                           !.state = "chatSearching",
                           !.cmd = <<[question |-> n, history |-> AllButLast(history),
                                      log |-> chat.log]>>]
        /\ UNCHANGED chatIdleVars

\* The command askQuestion returned runs: HybridRetrieve, BuildMessages,
\* Generate; its answerMsg goes to the program.
TuiAskQuestion ==
    \E retrieveFails \in BOOLEAN, generateFails \in BOOLEAN :
        /\ chat.ui = "tui" /\ ~chat.quit
        /\ chat.cmd # <<>>
        /\ retrieveFails => ~generateFails
        /\ LET c == chat.cmd[1]
           IN  chat' = [chat EXCEPT
                          !.cmd = <<>>,
                          !.given = IF retrieveFails THEN chat.given
                                    ELSE <<[history |-> c.history, log |-> c.log]>>,
                          !.msg = <<[answer |-> c.question,
                                     err |-> IF retrieveFails THEN "retrieval error"
                                             ELSE IF generateFails THEN "generation error"
                                             ELSE ""]>>]
        /\ UNCHANGED chatIdleVars

\* chatModel.Update on the answerMsg.
TuiAnswer ==
    /\ chat.ui = "tui" /\ ~chat.quit
    /\ chat.msg # <<>>
    /\ LET a == chat.msg[1]
       IN  chat' = IF a.err # ""
                   THEN [chat EXCEPT !.msg = <<>>, !.state = "chatIdle", !.event = "error",
                                     !.given = <<>>]
                   ELSE [chat EXCEPT
                           !.msg = <<>>, !.state = "chatIdle", !.event = "answer",
                           !.given = <<>>,
                           !.history = Trim(Append(chat.history, AssistantMessage(a.answer))),
                           !.log = Append(chat.log, AssistantMessage(a.answer))]
    /\ UNCHANGED chatIdleVars

\* chatModel.Update on a window size or spinner tick message: the view only.
TuiRedraw ==
    /\ chat.ui = "tui" /\ ~chat.quit
    /\ chat.event # "redraw"
    /\ chat' = [chat EXCEPT !.event = "redraw"]
    /\ UNCHANGED chatIdleVars

\* Model.Update on ctrl+c: tea.Quit whatever the screen is doing.
TuiQuit ==
    /\ chat.ui = "tui" /\ ~chat.quit
    /\ chat' = [chat EXCEPT !.quit = TRUE, !.event = "ctrl+c"]
    /\ UNCHANGED chatIdleVars

NextChat == CliLine \/ TuiKey \/ TuiEnter \/ TuiAskQuestion \/ TuiAnswer \/ TuiRedraw \/ TuiQuit

SpecChat == InitChat /\ [][NextChat]_vars

\* --------------------------------------------------------------- properties

\* What a reader of database d sees of the file at path p.
RowsOf(d, p) == {f \in d.files : f.path = p}
ChunkRowsOf(d, p) == {c \in d.chunks : \E f \in RowsOf(d, p) : c.file_id = f.id}
VecRowsOf(d, p) == {v \in d.vec_chunks : \E c \in ChunkRowsOf(d, p) : v.chunk_id = c.id}
ChunkContentsOf(d, p) == {c.content : c \in ChunkRowsOf(d, p)}
HashesOf(d, p) == {f.hash : f \in RowsOf(d, p)}
ModelOf(d) == {m.value : m \in {m \in d.meta : m.key = "embedding_model"}}

\* The database as runPipeline found it: snap, purged if Index purged it.
Purged == ModelOf(snap) # {} /\ ModelOf(snap) # {config} /\ ModelOf(snap) # {""}
AtPipelineStart(p) ==
    IF Purged THEN [hashes |-> {}, chunks |-> {}, vecs |-> {}]
    ELSE [hashes |-> HashesOf(snap, p), chunks |-> ChunkRowsOf(snap, p),
          vecs |-> VecRowsOf(snap, p)]
Now(p) == [hashes |-> HashesOf(db, p), chunks |-> ChunkRowsOf(db, p), vecs |-> VecRowsOf(db, p)]

\* The file at p is stored completely in its current version: the record
\* with the hash of its bytes, every chunk of the chunker's output, and for
\* each chunk the vector of its content.
CompleteNew(p) ==
    /\ disk[p] \in Contents
    /\ HashesOf(db, p) = {Sha256(disk[p])}
    /\ ChunkContentsOf(db, p) = SeqToSet(Chunk(p, disk[p]))
    /\ Cardinality(ChunkRowsOf(db, p)) = Len(Chunk(p, disk[p]))
    /\ \A c \in ChunkRowsOf(db, p) :
          Cardinality({v \in db.vec_chunks : v.chunk_id = c.id}) = 1
    /\ \A v \in VecRowsOf(db, p) : \E c \in ChunkRowsOf(db, p) :
          v.chunk_id = c.id /\ v.embedding.text = c.content

\* C1: in every state a concurrent reader can observe while the persist stage
\* runs, every file record has as many embeddings as it has chunks.
C1_ChunksMatchEmbeddings ==
    pc = "pipeline" =>
        \A p \in Paths : RowsOf(db, p) # {} =>
            Cardinality(ChunkRowsOf(db, p)) = Cardinality(VecRowsOf(db, p))

\* C2: while the pipeline runs, a reader sees for a file that is re-indexed
\* either the complete chunk set it had before the run or the complete chunk
\* set of its new version, never an empty, partial or mixed one.  (Stated for
\* the runs that follow a call which returned no error.)
C2_OldOrNewChunkSet ==
    (pc = "pipeline" /\ prev.ok) =>
        \A p \in Paths : AtPipelineStart(p).hashes # {} =>
            \/ ChunkContentsOf(db, p) = {c.content : c \in AtPipelineStart(p).chunks}
            \/ ChunkContentsOf(db, p) = SeqToSet(Chunk(p, disk[p]))

\* C3: once an embedding call has failed the run returns to its caller: no
\* state before the return is one in which nothing can happen any more.  (A
\* run is finite, so it returns under fair scheduling iff it never gets stuck.)
C3_ReturnsAfterEmbedError ==
    (pc = "pipeline" /\ embedErr # NoErr) => ENABLED NextBig

\* C4: when InsertChunks or InsertEmbeddings has failed for a file, the store
\* holds that file either as it was before the run or completely in its new
\* version.
C4_NoPartialFileAfterFailure ==
    (/\ pc = "pipeline"
     /\ storeErr.op \in {"chunks", "embeddings"}
     /\ storeCur = <<>>) =>
        \/ Now(storeErr.path) = AtPipelineStart(storeErr.path)
        \/ CompleteNew(storeErr.path)

\* C5: when persisting a file failed (and neither the walk nor an embedding
\* did), the indexing call returns the storage error together with the
\* partial stats of the run.
C5_StorageErrorWithStats ==
    (pc = "idle" /\ result.err = "storage failed") =>
        /\ result.hasStats
        /\ result.stats = pipeRet.stats

\* The call in progress (or the last one) follows a call that returned no
\* error, uses the same model, and no lookup of a stored hash has failed in it.
Rerun == prev.ok /\ prev.model = config /\ lookupFailures = 0

Counts(d) == <<Cardinality(d.files), Cardinality(d.chunks), Cardinality(d.vec_chunks)>>

\* C6: when the tree is indexed again with no file changed and the same
\* model, the numbers of file records, chunks and embeddings stay what the
\* first run left, and the second run reports files_indexed = 0,
\* chunks_total = 0 and files_skipped = files_total.
C6_Idempotence ==
    (Rerun /\ runChanged = {}) =>
        /\ Counts(db) = Counts(snap)
        /\ pc # "summarize"
        /\ (pc = "idle" /\ result.err = "") =>
              /\ result.hasStats
              /\ result.stats.FilesIndexed = 0
              /\ result.stats.ChunksTotal = 0
              /\ result.stats.FilesSkipped = result.stats.FilesTotal

C6_Witness ==
    /\ Rerun /\ runChanged = {}
    /\ pc = "idle" /\ result.err = ""
    /\ result.stats.FilesTotal = NumFiles
    /\ Cardinality(db.files) = NumFiles
    /\ Cardinality(db.vec_chunks) >= NumFiles

\* C7: when exactly one file changed between two runs, the second run leaves
\* every other file's hash, chunk rows (ids included) and embeddings as they
\* were.
C7_Incrementality ==
    \A p \in Paths :
        (Rerun /\ runChanged = {p}) =>
            \A q \in Paths \ {p} :
                /\ HashesOf(db, q) = HashesOf(snap, q)
                /\ ChunkRowsOf(db, q) = ChunkRowsOf(snap, q)
                /\ VecRowsOf(db, q) = VecRowsOf(snap, q)

C7_Witness ==
    /\ Rerun /\ runChanged = {1}
    /\ pc = "idle" /\ result.err = ""
    /\ result.stats.FilesIndexed = 1
    /\ HashesOf(snap, 1) # {} /\ HashesOf(db, 1) # HashesOf(snap, 1)
    /\ ChunkRowsOf(db, 1) # {} /\ ChunkRowsOf(db, 1) \cap ChunkRowsOf(snap, 1) = {}
    /\ ChunkRowsOf(db, 2) # {} /\ VecRowsOf(db, 2) # {}

\* C8: after an indexing run has returned (here: without error), every file
\* record's stored hash is the SHA-256 of the file's bytes on disk.
C8_HashFidelity ==
    (pc = "idle" /\ result.err = "" /\ changed = {}) =>
        \A f \in db.files : disk[f.path] \in Contents => f.hash = Sha256(disk[f.path])

\* C9: a hash worker that has read a file's bytes drops the file exactly when
\* the store holds a record for its path with the hash of those bytes (and
\* the lookup did not fail); otherwise it forwards path, hash and bytes.
C9_HashStageDecision ==
    [][filesTotal' = filesTotal + 1 =>
         LET fi == Head(fileCh)
             stored == \E f \in db.files : f.path = fi /\ f.hash = Sha256(disk[fi])
         IN  disk[fi] \in Contents =>
               /\ (hashHeld' = hashHeld) <=> (stored /\ lookupFailures' = lookupFailures)
               /\ hashHeld' # hashHeld =>
                     hashHeld' = hashHeld \cup
                         {[path |-> fi, hash |-> Sha256(disk[fi]), src |-> disk[fi]]}
    ]_vars

\* File 1 was dropped as unchanged and file 2, whose bytes changed, is in a
\* hash worker's hand.
C9_Witness ==
    /\ pc = "pipeline" /\ filesTotal = 2
    /\ HashesOf(db, 1) = {Sha256(disk[1])}
    /\ HashesOf(db, 2) # {} /\ HashesOf(db, 2) # {Sha256(disk[2])}
    /\ \E w \in hashHeld : w.path = 2
    /\ workCh = <<>> /\ chunkHeld = {} /\ chunkCh = <<>> /\ embedHeld = <<>>
    /\ embeddedCh = <<>> /\ storeSt = "recv"

\* C10: when Index starts the pipeline it has purged files, chunks and
\* embeddings exactly if the recorded embedding_model was non-empty and
\* differed from the configured one; a call that fails before the pipeline
\* purges nothing; embedding_model changes only when runPipeline has returned
\* without error, and then to the configured model.
C10_ModelChangeProtocol ==
    [][/\ (pc = "idle" /\ pc' = "pipeline") =>
            IF ModelOf(db) # {} /\ ModelOf(db) # {""} /\ ModelOf(db) # {config'}
            THEN /\ db'.files = {} /\ db'.chunks = {} /\ db'.vec_chunks = {}
                 /\ db'.meta = db.meta
            ELSE db' = db
       /\ (pc = "idle" /\ pc' = "idle") => db' = db
       /\ ModelOf(db') # ModelOf(db) =>
            /\ pc = "pipeline" /\ pc' # "pipeline"
            /\ pipeRet'.err = ""
            /\ ModelOf(db') = {config}
       /\ (pc = "pipeline" /\ pc' # "pipeline" /\ pipeRet'.err = "" /\ result'.err # "set meta") =>
            ModelOf(db') = {config}
    ]_vars

\* The pipeline starts on a store that was purged because the model changed.
C10_Witness ==
    /\ pc = "pipeline" /\ walkNext = 1
    /\ snap.files # {} /\ snap.vec_chunks # {}
    /\ ModelOf(snap) = {"A"} /\ config = "B"
    /\ db.files = {} /\ db.chunks = {} /\ db.vec_chunks = {}

\* C11: when a tree indexed under one model is indexed again, unchanged,
\* under another model, the second run's files_indexed equals its
\* files_total and embedding_model is the new model afterwards.
C11_ModelChangeReindexesAll ==
    (/\ pc = "idle" /\ result.err = ""
     /\ prev.ok /\ prev.model # config /\ ModelOf(snap) = {prev.model}
     /\ snap.vec_chunks # {}
     /\ runChanged = {} /\ changed = {}
     /\ \A p \in TreePaths : disk[p] \in Contents) =>
        /\ result.hasStats
        /\ result.stats.FilesIndexed = result.stats.FilesTotal
        /\ ModelOf(db) = {config}

\* C12: the stats of a call that returned without error: files_total is
\* the number of files the walker emitted, files_indexed the number of files
\* persisted, chunks_total the number of chunks persisted, and files_skipped
\* the number of files dropped because their hash was unchanged.
C12_StatsCounts ==
    (pc = "idle" /\ result.err = "" /\ changed = {}) =>
        /\ result.hasStats
        /\ result.stats.FilesTotal = Cardinality({p \in Paths : Eligible(p)})
        /\ result.stats.FilesIndexed = Cardinality(handed)
        /\ result.stats.ChunksTotal =
              Cardinality(UNION {ChunkRowsOf(db, p) : p \in handed})
        /\ result.stats.FilesSkipped = skippedUnchanged

\* C13: once an embedding call has failed the embed stage sends no further
\* batch; the file whose call failed and the files not handed to the store
\* stage before are left as the run found them, and once the store stage
\* has ended every file handed over before the error is stored completely
\* (unless one of its own store calls failed).
C13_NoBatchAfterEmbedError ==
    [][/\ (embedErr # NoErr /\ pc' = "pipeline") =>
             /\ handed' = handed
             /\ \/ embeddedCh' = embeddedCh
                \/ embeddedCh # <<>> /\ embeddedCh' = Tail(embeddedCh)
       /\ (embedErr' # NoErr /\ pc' = "pipeline") =>
             /\ embedHeld' = <<>>
             /\ embedErr'.path \notin handed'
             /\ \A p \in Paths \ handed' : Now(p)' = AtPipelineStart(p)'
             /\ (storeSt' = "done") =>
                   /\ embeddedCh' = <<>> /\ storeCur' = <<>>
                   /\ storeErr' = NoErr =>
                         /\ stats'.FilesIndexed = Cardinality(handed')
                         /\ \A p \in handed' : CompleteNew(p)'
    ]_vars

\* The call for file 2 failed after file 1 had been handed over; the store
\* stage has ended with file 1 stored.
C13_Witness ==
    /\ pc = "pipeline" /\ embedErr.path = 2
    /\ handed = {1} /\ storeSt = "done" /\ storeErr = NoErr
    /\ stats.FilesIndexed = 1 /\ CompleteNew(1)
    /\ RowsOf(db, 2) = {}

\* C14: when a file with n chunks has been persisted (n = 1, 33 or 65 here),
\* the store holds exactly n chunks and n embeddings for it, the chunk ids
\* ascend in the chunker's output order, and the embedding stored under the
\* id of the i-th chunk is the vector of the i-th chunk's content.
C14_ChunksAndEmbeddingsInOrder ==
    [][stats'.FilesIndexed = stats.FilesIndexed + 1 =>
         LET p        == storeCur[1].eb.work.path
             expected == Chunk(p, disk[p])
             rows     == ChunkRowsOf(db', p)
             Rank(c)  == Cardinality({d \in rows : d.id <= c.id})
         IN  /\ Cardinality(rows) = Len(expected)
             /\ Cardinality(VecRowsOf(db', p)) = Len(expected)
             /\ stats'.ChunksTotal = stats.ChunksTotal + Len(expected)
             /\ \A c \in rows :
                   /\ c.content = expected[Rank(c)]
                   /\ {v.embedding : v \in {v \in db'.vec_chunks : v.chunk_id = c.id}} =
                         {[model |-> config, text |-> expected[Rank(c)],
                           dim |-> EmbeddingDim]}
    ]_vars

\* A file of three sub-batches has been persisted.
C14_Witness ==
    /\ pc = "pipeline" /\ stats.FilesIndexed >= 1
    /\ \E p \in TreePaths :
          /\ disk[p] = "b65"
          /\ Cardinality(ChunkRowsOf(db, p)) = 2 * embedBatchSize + 1
          /\ Cardinality(VecRowsOf(db, p)) = 2 * embedBatchSize + 1

\* The ids of a result list, and the position of an id's first occurrence.
IdsOf(list) == {list[i].id : i \in 1..Len(list)}
FirstIndex(list, id) == CHOOSE n \in 1..Len(list) :
                            list[n].id = id /\ \A m \in 1..(n - 1) : list[m].id # id
\* The lexical results HybridRetrieve works with.
Lexical == IF retrieval.ftsErr THEN <<>> ELSE retrieval.fts

\* C15: HybridRetrieve returns no chunk id twice and at most k results.
C15_RetrievalDedup ==
    /\ Len(retrieval.results) <= retrieval.k
    /\ \A i, j \in 1..Len(retrieval.results) :
          i # j => retrieval.results[i].id # retrieval.results[j].id

\* Both searches returned the same chunk and more chunks than k.
C15_Witness ==
    /\ retrieval.err = "" /\ ~retrieval.ftsErr
    /\ IdsOf(retrieval.fts) \cap IdsOf(retrieval.vec) # {}
    /\ Cardinality(IdsOf(retrieval.fts) \cup IdsOf(retrieval.vec)) > retrieval.k
    /\ Len(retrieval.results) = retrieval.k /\ retrieval.k = MaxK

\* C16: in the output of HybridRetrieve every result of the lexical search
\* precedes every result that only the vector search returned, and within
\* each group the results keep the order of their source list.
C16_RetrievalOrdering ==
    LET out == retrieval.results
    IN  \A i, j \in 1..Len(out) :
          /\ out[i].from = "fts" => out[i].id \in IdsOf(Lexical)
          /\ out[i].from = "vec" =>
                out[i].id \in IdsOf(retrieval.vec) \ IdsOf(Lexical)
          /\ (out[i].from = "fts" /\ out[j].from = "vec") => i < j
          /\ (i < j /\ out[i].from = "fts" /\ out[j].from = "fts") =>
                FirstIndex(Lexical, out[i].id) < FirstIndex(Lexical, out[j].id)
          /\ (i < j /\ out[i].from = "vec" /\ out[j].from = "vec") =>
                FirstIndex(retrieval.vec, out[i].id) < FirstIndex(retrieval.vec, out[j].id)

\* The output holds a lexical result and a result of the vector search only,
\* while the vector search ranked a lexical result first.
C16_Witness ==
    /\ retrieval.err = "" /\ Len(retrieval.results) = 2
    /\ retrieval.results[1].from = "fts" /\ retrieval.results[2].from = "vec"
    /\ Len(retrieval.vec) = 2 /\ retrieval.vec[1].id = retrieval.results[1].id

\* C17: when the lexical search fails HybridRetrieve returns, without
\* error, what it returns for no lexical results: the vector results; when
\* embedding the question or the vector search fails it returns an error
\* and no results, whatever the lexical search found.
C17_RetrievalFailures ==
    LET out == retrieval.results
        distinct == Cardinality(IdsOf(retrieval.vec))
    IN  /\ (retrieval.embedErr \/ retrieval.vecErr) <=> retrieval.err # ""
        /\ retrieval.embedErr => retrieval.err = "embed query"
        /\ retrieval.err # "" => out = <<>>
        /\ (retrieval.ftsErr /\ retrieval.err = "") =>
              /\ Len(out) = IF distinct < retrieval.k THEN distinct ELSE retrieval.k
              /\ \A i \in 1..Len(out) :
                    /\ out[i].from = "vec"
                    /\ \A j \in 1..Len(out) : i < j =>
                          FirstIndex(retrieval.vec, out[i].id)
                             < FirstIndex(retrieval.vec, out[j].id)
              /\ \A n \in 1..Len(retrieval.vec) :
                    (\A i \in 1..Len(out) : out[i].id # retrieval.vec[n].id) =>
                        Len(out) = retrieval.k

\* The lexical search failed with results in hand and the vector results
\* came back.
C17_Witness ==
    /\ retrieval.ftsErr /\ retrieval.fts # <<>>
    /\ retrieval.err = "" /\ retrieval.results = retrieval.vec
    /\ Len(retrieval.vec) = MaxHits

C19_OneRecordPerPath ==
    \A f, g \in db.files : f.path = g.path => f = g

\* Both paths have a record and UpsertFile was called again for the older.
C19_Witness ==
    /\ last.op = "upsert_file" /\ last.ok
    /\ Cardinality(db.files) = 2
    /\ \E f \in db.files : f.id > last.id

\* C20: every chunk refers to an existing file record, every embedding is
\* keyed by an existing chunk id, no chunk has two embeddings, and the
\* lexical index holds exactly one row per chunk.  (Stated for the calls of
\* InsertEmbeddings that pass ids InsertChunks has returned.)
C20_ReferentialIntegrity ==
    (\A v \in db.vec_chunks : v.chunk_id <= db.seq_chunks) =>
        /\ \A c \in db.chunks : \E f \in db.files : f.id = c.file_id
        /\ \A v \in db.vec_chunks : \E c \in db.chunks : c.id = v.chunk_id
        /\ \A v, w \in db.vec_chunks : v.chunk_id = w.chunk_id => v = w
        /\ {r.rowid : r \in db.chunks_fts} = {c.id : c \in db.chunks}
        /\ Cardinality(db.chunks_fts) = Cardinality(db.chunks)

\* C21: InsertChunks is all or nothing.  When it succeeds it returns one id
\* per input chunk, in input order, all distinct and none used before, and
\* the store gains exactly the rows of the input, an empty metadata stored
\* as {}; when it fails it returns no id and the store is as it was.
C21_InsertChunksAtomic ==
    [][last'.op = "insert_chunks" =>
         LET in  == last'.chunks
             ids == last'.ids
         IN  IF ~last'.ok THEN db' = db /\ ids = <<>>
             ELSE /\ Len(ids) = Len(in)
                  /\ \A i, j \in 1..Len(ids) : i < j => ids[i] # ids[j]
                  /\ \A i \in 1..Len(ids) :
                        /\ ids[i] > db.seq_chunks
                        /\ \A c \in db.chunks : c.id # ids[i]
                        /\ \E c \in db'.chunks :
                              /\ c.id = ids[i]
                              /\ c.file_id = last'.fileID
                              /\ c.content = in[i].content
                              /\ c.metadata = IF in[i].metadata = "" THEN "{}"
                                              ELSE in[i].metadata
                  /\ db.chunks \subseteq db'.chunks
                  /\ {c.id : c \in db'.chunks \ db.chunks} = SeqToSet(ids)
                  /\ Cardinality(db'.chunks) = Cardinality(db.chunks) + Len(in)
                  /\ db'.files = db.files /\ db'.vec_chunks = db.vec_chunks
                  /\ db'.meta = db.meta
    ]_vars

\* InsertChunks has just stored two chunks, the second given without
\* metadata and stored with {}.
C21_Witness ==
    /\ last.op = "insert_chunks" /\ last.ok
    /\ Len(last.ids) = 2 /\ last.ids[1] < last.ids[2]
    /\ last.chunks[1].metadata # "" /\ last.chunks[2].metadata = ""
    /\ \E c \in db.chunks : c.id = last.ids[1] /\ c.metadata = last.chunks[1].metadata
    /\ \E c \in db.chunks : c.id = last.ids[2] /\ c.metadata = "{}"

\* C22: InsertEmbeddings fails, storing nothing, when the number of chunk
\* ids differs from the number of vectors or a vector has not EmbeddingDim
\* floats; whenever it fails the store is as it was; when it succeeds the
\* store gains exactly one vector per chunk id given.
C22_InsertEmbeddingsAtomic ==
    [][last'.op = "insert_embeddings" =>
         LET ids  == last'.chunkIDs
             embs == last'.embeddings
         IN  /\ Len(ids) # Len(embs) => ~last'.ok
             /\ (\E i \in 1..Len(embs) : embs[i].dim # EmbeddingDim) => ~last'.ok
             /\ ~last'.ok => db' = db
             /\ last'.ok =>
                   /\ db'.vec_chunks = db.vec_chunks \cup
                         {[chunk_id |-> ids[i], embedding |-> embs[i]] : i \in 1..Len(ids)}
                   /\ Cardinality(db'.vec_chunks) = Cardinality(db.vec_chunks) + Len(ids)
                   /\ db'.chunks = db.chunks /\ db'.files = db.files
                   /\ db'.meta = db.meta
             /\ \A v \in db'.vec_chunks : v.embedding.dim = EmbeddingDim
    ]_vars

\* InsertEmbeddings has failed on its second vector, a float short, after a
\* first vector the store would take: an existing chunk without a vector.
C22_Witness ==
    /\ last.op = "insert_embeddings" /\ ~last.ok
    /\ Len(last.chunkIDs) = 2 /\ Len(last.embeddings) = 2
    /\ last.chunkIDs[1] # last.chunkIDs[2]
    /\ last.embeddings[1].dim = EmbeddingDim
    /\ last.embeddings[2].dim # EmbeddingDim
    /\ \E c \in db.chunks : c.id = last.chunkIDs[1]
    /\ db.vec_chunks = {}

\* C23: DeleteAllChunks removes every file record, every chunk with its
\* lexical row and every embedding, all of them or, when a statement fails,
\* none; the meta table, embedding_model included, is left as it was.
C23_DeleteAllChunks ==
    [][last'.op = "delete_all_chunks" =>
         IF last'.ok
         THEN /\ db'.files = {} /\ db'.chunks = {} /\ db'.vec_chunks = {}
              /\ db'.chunks_fts = {}
              /\ db'.meta = db.meta
              /\ GetMeta(db', "embedding_model") = GetMeta(db, "embedding_model")
         ELSE db' = db
    ]_vars

\* DeleteAllChunks has emptied a store that had files and chunks; the model
\* name is still recorded.
C23_Witness ==
    /\ last.op = "delete_all_chunks" /\ last.ok
    /\ db.seq_files > 0 /\ db.seq_chunks > 0
    /\ db.files = {} /\ db.chunks = {} /\ db.vec_chunks = {}
    /\ GetMeta(db, "embedding_model") = "A"

\* C24: GetFileHash and GetMeta answer "" without an error for a path or a
\* key the store does not have, and the stored value otherwise; SetMeta
\* leaves exactly one entry for its key, holding the value given, and the
\* other keys as they were; a GetMeta that follows a SetMeta of the same key
\* returns the value set; no other operation changes the meta table.
C24_HashAndMeta ==
    [][/\ (last'.op = "get_file_hash" /\ ~last'.failed) =>
            /\ last'.ok /\ db' = db
            /\ IF \E f \in db.files : f.path = last'.path
               THEN \E f \in db.files : f.path = last'.path /\ f.hash = last'.value
               ELSE last'.value = ""
       /\ (last'.op = "get_meta" /\ ~last'.failed) =>
            /\ last'.ok /\ db' = db
            /\ IF \E e \in db.meta : e.key = last'.key
               THEN \E e \in db.meta : e.key = last'.key /\ e.value = last'.value
               ELSE last'.value = ""
            /\ (last.op = "set_meta" /\ last.ok /\ last.key = last'.key)
                  => last'.value = last.value
       /\ last'.op = "set_meta" =>
            IF last'.ok
            THEN /\ {e \in db'.meta : e.key = last'.key}
                       = {[key |-> last'.key, value |-> last'.value]}
                 /\ {e \in db'.meta : e.key # last'.key}
                       = {e \in db.meta : e.key # last'.key}
                 /\ db'.files = db.files /\ db'.chunks = db.chunks
                 /\ db'.vec_chunks = db.vec_chunks
            ELSE db' = db
       /\ last'.op # "set_meta" => db'.meta = db.meta
       /\ \A e, g \in db'.meta : e.key = g.key => e = g
    ]_vars

\* GetMeta has returned the second value set for a key that already had
\* one, while the other key has none.
C24_Witness ==
    /\ last.op = "get_meta" /\ last.ok /\ last.key = "embedding_model"
    /\ last.value = "B"
    /\ db.meta = {[key |-> "embedding_model", value |-> "B"]}
    /\ db.files # {}

\* C25: of the captures dedup keeps, none has a byte span strictly inside
\* the span of another, no two overlap, and they are ordered by ascending
\* start byte; each of them is a capture of the input.
C25_DedupKept ==
    (pureCall.fn = "dedup" /\ pureCall.done) =>
        LET kept == pureCall.kept
        IN  /\ \A i \in 1..Len(kept) : \E j \in 1..Len(pureCall.caps) : pureCall.caps[j] = kept[i]
            /\ \A i, j \in 1..Len(kept) :
                  i < j => /\ kept[i].startByte < kept[j].startByte
                           /\ kept[i].endByte <= kept[j].startByte
            /\ \A i, j \in 1..Len(kept) :
                  ~(/\ kept[j].startByte <= kept[i].startByte
                    /\ kept[i].endByte <= kept[j].endByte
                    /\ kept[i] # kept[j])

\* dedup has kept two of three captures given out of order, and dropped the
\* one nested in the first.
C25_Witness ==
    /\ pureCall.fn = "dedup" /\ pureCall.done
    /\ Len(pureCall.caps) = 3 /\ Len(pureCall.kept) = 2
    /\ pureCall.caps[1].startByte > pureCall.caps[3].startByte
    /\ \E i \in 1..3 :
          /\ pureCall.kept[1].startByte < pureCall.caps[i].startByte
          /\ pureCall.caps[i].endByte < pureCall.kept[1].endByte

\* A capture is kept when its span is among those dedup returned.
IsKept(c) == \E i \in 1..Len(pureCall.kept) : pureCall.kept[i] = c
Overlap(a, b) == a.startByte < b.endByte /\ b.startByte < a.endByte

\* C26 as stated: a capture that starts at or after the end of every capture
\* with a smaller start byte is kept; of the captures with one start byte
\* the one with the largest span is kept; every dropped capture overlaps a
\* kept one.
C26_AsStated ==
    (pureCall.fn = "dedup" /\ pureCall.done) =>
        LET caps == SeqToSet(pureCall.caps)
        IN  /\ \A c \in caps :
                  (\A b \in caps : b.startByte < c.startByte => c.startByte >= b.endByte)
                      => IsKept(c)
            /\ \A c \in caps :
                  (/\ \E b \in caps : b.startByte = c.startByte /\ b # c
                   /\ \A b \in caps : b.startByte = c.startByte => b.endByte <= c.endByte)
                      => IsKept(c)
            /\ \A c \in caps : ~IsKept(c) => \E k \in caps : IsKept(k) /\ Overlap(c, k)

\* C26, amended: a capture that starts at or after the end of every capture
\* before it in dedup's order (a smaller start byte, or the same start byte
\* and a larger span) is kept; of the captures with one start byte none but
\* the one with the largest span is kept; every dropped capture overlaps a
\* kept one.
C26_DedupKeeps ==
    (pureCall.fn = "dedup" /\ pureCall.done) =>
        LET caps == SeqToSet(pureCall.caps)
        IN  /\ \A c \in caps :
                  (\A b \in caps :
                      (\/ b.startByte < c.startByte
                       \/ b.startByte = c.startByte /\ b.endByte > c.endByte)
                          => c.startByte >= b.endByte)
                      => IsKept(c)
            /\ \A c \in caps :
                  IsKept(c) => \A b \in caps : b.startByte = c.startByte
                                                  => b.endByte <= c.endByte
            /\ \A c \in caps : ~IsKept(c) => \E k \in caps : IsKept(k) /\ Overlap(c, k)

\* dedup has kept the larger of two captures with one start byte, and the
\* capture that begins where the larger ends.
C26_Witness ==
    /\ pureCall.fn = "dedup" /\ pureCall.done
    /\ Len(pureCall.caps) = 3 /\ Len(pureCall.kept) = 2
    /\ \E i, j \in 1..3 :
          /\ pureCall.caps[i].startByte = pureCall.caps[j].startByte
          /\ pureCall.caps[i].endByte < pureCall.caps[j].endByte
          /\ pureCall.kept[1] = pureCall.caps[j]
          /\ pureCall.kept[2].startByte = pureCall.caps[j].endByte

\* C27: an enriched content above 8,192 bytes is split into windows: at
\* least two when it has more than 40 lines; every window spans at most 40
\* lines; consecutive windows share exactly 10 lines; the start lines and
\* the end lines strictly increase; every window has the capture's name and
\* kind.
C27_OversizedSplit ==
    (pureCall.fn = "split" /\ pureCall.done /\ pureCall.bytes > 8192) =>
        LET w == pureCall.chunks
        IN  /\ Len(w) >= 1
            /\ Len(pureCall.content) > 40 => Len(w) >= 2
            /\ \A i \in 1..Len(w) :
                  /\ w[i].EndLine - w[i].StartLine + 1 <= 40
                  /\ Len(w[i].Content) = w[i].EndLine - w[i].StartLine + 1
                  /\ w[i].Name = pureCall.cap.name
                  /\ w[i].Kind = pureCall.cap.kind
            /\ \A i \in 1..(Len(w) - 1) :
                  /\ w[i].StartLine < w[i + 1].StartLine
                  /\ w[i].EndLine < w[i + 1].EndLine
                  /\ w[i].EndLine - w[i + 1].StartLine + 1 = 10
                  /\ SubSeq(w[i].Content, Len(w[i].Content) - 9, Len(w[i].Content))
                        = SubSeq(w[i + 1].Content, 1, 10)

\* A named capture has been split into three windows, the last of them
\* shorter than 40 lines.
C27_Witness ==
    /\ pureCall.fn = "split" /\ pureCall.done /\ pureCall.bytes > 8192
    /\ pureCall.cap.name # ""
    /\ Len(pureCall.chunks) = 3
    /\ Len(pureCall.chunks[3].Content) < 40

\* The times the walker has sent the entry of the tree at a path, by its
\* forward-slash path relative to the root.
TimesSent(path) ==
    Cardinality({i \in 1..Len(pureCall.files) : pureCall.files[i].RelPath = Join(path, "/")})
\* The directories above an entry.
DirsAbove(path) == {SubSeq(path, 1, n) : n \in 1..(Len(path) - 1)}

\* C28: the walker sends an entry exactly once when it is not a symlink, has
\* a permitted extension, has a size s with 0 < s <= 1 MiB and lies under no
\* pruned directory, and never otherwise; what it sends is the entry's size
\* and its path relative to the root with forward slashes.
C28_WalkerEmits ==
    (pureCall.fn = "walk" /\ pureCall.done) =>
        /\ \A e \in pureCall.tree :
              TimesSent(e.path) =
                 IF /\ ~e.symlink
                    /\ e.ext \in AllowedExts
                    /\ e.statOk /\ 0 < e.size /\ e.size <= 1048576
                    /\ DirsAbove(e.path) \cap pureCall.skipped = {}
                 THEN 1 ELSE 0
        /\ \A i \in 1..Len(pureCall.files) :
              /\ \E e \in pureCall.tree :
                    /\ pureCall.files[i].RelPath = Join(e.path, "/")
                    /\ pureCall.files[i].Size = e.size
              /\ \A k \in 1..Len(pureCall.files[i].RelPath) :
                    pureCall.files[i].RelPath[k] # "\\"

\* On a platform whose separator is the backslash the walker has sent a file
\* of exactly 1 MiB from a subdirectory and left out a file one byte larger.
C28_Witness ==
    /\ pureCall.fn = "walk" /\ pureCall.done /\ pureCall.sep = "\\"
    /\ Len(pureCall.files) = 1
    /\ pureCall.files[1].Size = 1048576
    /\ \E k \in 1..Len(pureCall.files[1].RelPath) : pureCall.files[1].RelPath[k] = "/"
    /\ \E e \in pureCall.tree : e.size = 1048577 /\ DirsAbove(e.path) \cap pureCall.skipped = {}

\* Some pattern equals the directory's base name, is a prefix of its
\* relative path, or glob-matches its base name or its relative path.
PatternHits(dir) ==
    \E i \in 1..Len(pureCall.ignores) :
        LET p == pureCall.ignores[i]
        IN  \/ p = dir[Len(dir)]
            \/ HasPrefix(Join(dir, "/"), p)
            \/ Match(p, dir[Len(dir)], pureCall.sep)
            \/ Match(p, Join(dir, "/"), pureCall.sep)

\* C29: a directory the walk reaches is pruned exactly when a pattern hits
\* it; no entry with a directory above it that a pattern hits is sent; an
\* entry the walker would send is sent when no pattern hits a directory
\* above it, whether or not a pattern matches the entry's own name.
C29_IgnoreSemantics ==
    (pureCall.fn = "walk" /\ pureCall.done) =>
        /\ \A e \in pureCall.tree : \A d \in DirsAbove(e.path) :
              DirsAbove(d) \cap pureCall.skipped = {}
                 => (d \in pureCall.skipped <=> PatternHits(d))
        /\ \A e \in pureCall.tree :
              (\E d \in DirsAbove(e.path) : PatternHits(d)) => TimesSent(e.path) = 0
        /\ \A e \in pureCall.tree :
              (/\ \A d \in DirsAbove(e.path) : ~PatternHits(d)
               /\ Accepts(e))
                 => TimesSent(e.path) = 1

\* The walker has pruned a directory whose relative path a pattern is a
\* proper prefix of, and sent a file of another directory whose own name is
\* the pattern.
C29_Witness ==
    /\ pureCall.fn = "walk" /\ pureCall.done
    /\ Len(pureCall.files) = 1
    /\ \E e \in pureCall.tree :
          /\ TimesSent(e.path) = 1
          /\ Len(e.path) = 2
          /\ e.path[2] = pureCall.ignores[1]
    /\ \E d \in pureCall.skipped :
          /\ d[Len(d)] # pureCall.ignores[1]
          /\ HasPrefix(Join(d, "/"), pureCall.ignores[1])

\* C30: the progress callback is called once at each successful persist of
\* a file (the step that commits the file's embeddings) and at no other
\* step, a failed persist included; the k-th call of a run reports
\* processed = k, so the values are 1, 2, ..., files_indexed; in every call
\* processed <= total.  (The calls are forgotten when runPipeline returns.)
C30_ProgressCallback ==
    [][/\ IF pc = "pipeline" /\ db'.vec_chunks \ db.vec_chunks # {}
          THEN /\ Len(progress') = Len(progress) + 1
               /\ SubSeq(progress', 1, Len(progress)) = progress
               /\ progress'[Len(progress')].total = filesTotal
          ELSE progress' = progress \/ (pc' # "pipeline" /\ progress' = <<>>)
       /\ (storeErr' # storeErr /\ storeErr' # NoErr) => progress' = progress
       /\ \A i \in 1..Len(progress') :
             /\ progress'[i].processed = i
             /\ progress'[i].processed <= progress'[i].total
       /\ Len(progress') = stats'.FilesIndexed
    ]_vars

\* The store worker is done: one file was persisted and reported, the
\* other failed at InsertEmbeddings and was not.
C30_Witness ==
    /\ pc = "pipeline" /\ storeSt = "done"
    /\ storeErr.op = "embeddings"
    /\ filesTotal = 2
    /\ Len(progress) = 1 /\ progress[1].processed = 1

\* Summaries written by the step: some file has a non-empty summary it did
\* not have before.
SummariesOf(d) == {<<f.id, f.summary>> : f \in {f \in d.files : f.summary # ""}}
Generated == SummariesOf(db') \ SummariesOf(db) # {}

\* The summarizer runs only in a call whose pipeline returned no error and
\* persisted a file.
C31_OnlyAfterSuccess ==
    [][Generated => (/\ pc = "summarize"
                     /\ pipeRet.err = "" /\ pipeRet.stats.FilesIndexed > 0)]_vars

\* The summarizer leaves a file that has a summary as it is, and Index
\* returns the stats without error, embedding_model set, whether or not the
\* chat service failed.
C31_KeepsAndReturns ==
    [][(pc = "summarize" /\ pc' = "idle") =>
          /\ \A f \in db.files : f.summary # "" => f \in db'.files
          /\ result'.err = "" /\ result'.hasStats /\ result'.stats = pipeRet.stats
          /\ GetMeta(db, "embedding_model") = config
          /\ GetMeta(db', "embedding_model") = config]_vars

\* C31: summaries are generated only after an indexing run that returned no
\* error and persisted at least one file; when the chat service does not
\* fail, each file whose summary is empty gets a summary; files with a
\* summary are not touched; a failure of summarization does not make Index
\* fail: the stats are returned without error and embedding_model is set.
C31_Summarizer ==
    [][/\ Generated => (/\ pc = "summarize"
                        /\ pipeRet.err = "" /\ pipeRet.stats.FilesIndexed > 0)
       /\ (pc = "summarize" /\ pc' = "idle") =>
             /\ faultsLeft' = faultsLeft => \A f \in db'.files : f.summary # ""
             /\ \A f \in db.files : f.summary # "" => f \in db'.files
             /\ result'.err = "" /\ result'.hasStats /\ result'.stats = pipeRet.stats
             /\ GetMeta(db, "embedding_model") = config
             /\ GetMeta(db', "embedding_model") = config
    ]_vars

\* The last n entries of a sequence.
LastN(s, n) == IF Len(s) > n THEN SubSeq(s, Len(s) - n + 1, Len(s)) ELSE s

\* C32: whatever questions, /clear commands and failed answers came before,
\* the history given to BuildMessages holds at most 20 entries and is the
\* most recent entries recorded since the last /clear, in order; /clear
\* leaves the history empty.
C32_HistoryBound ==
    /\ chat.ui \in {"cli", "tui"} =>
          \A i \in 1..Len(chat.given) :
             /\ Len(chat.given[i].history) <= historyLimit
             /\ chat.given[i].history = LastN(chat.given[i].log, historyLimit)
    /\ (chat.ui \in {"cli", "tui"} /\ chat.event = "/clear") => chat.history = <<>>

\* Every queue of the pipeline is empty and closed and no stage holds an item.
Drained ==
    /\ walkSt = "done" /\ fileCh = <<>> /\ hashHeld = {}
    /\ workCh = <<>> /\ workClosed /\ chunkHeld = {}
    /\ chunkCh = <<>> /\ chunkClosed /\ embedHeld = <<>>
    /\ embeddedCh = <<>> /\ embeddedClosed /\ storeCur = <<>>

\* The files of the tree the run has to persist: readable, with a chunk, and
\* not stored under the hash of their bytes when the pipeline started.
Due ==
    {p \in Paths : /\ disk[p] \in Contents
                   /\ CaptureCount(disk[p]) > 0
                   /\ AtPipelineStart(p).hashes # {Sha256(disk[p])}}

C34_FailedFileRetried ==
    (/\ pc = "idle" /\ result.err = ""
     /\ prev.cause.op \in {"upsert", "chunks", "embeddings"}
     /\ prev.cause.path \notin runChanged \cup changed
     /\ disk[prev.cause.path] \in Contents) =>
        CompleteNew(prev.cause.path)

\* C35: when an indexing call has returned without error, every chunk the
\* store holds for a file that is still in the tree and readable comes from
\* the file's current bytes, and a file that now yields no chunk has no
\* chunk, no embedding and no hash of older bytes left in the store.
C35_NoStaleChunks ==
    (pc = "idle" /\ result.err = "" /\ changed = {}) =>
        \A p \in Paths : disk[p] \in Contents =>
            /\ ChunkContentsOf(db, p) \subseteq SeqToSet(Chunk(p, disk[p]))
            /\ CaptureCount(disk[p]) = 0 =>
                  /\ ChunkRowsOf(db, p) = {} /\ VecRowsOf(db, p) = {}
                  /\ HashesOf(db, p) \subseteq {Sha256(disk[p])}

\* The models whose vectors the store holds.
EmbeddingModels(d) == {v.embedding.model : v \in d.vec_chunks}

\* C36: whenever a call of Index has returned, with or without error, and
\* whatever models the calls so far were configured with, all embeddings of
\* the store come from one model, and a non-empty embedding_model names it.
C36_OneEmbeddingModel ==
    pc = "idle" =>
        /\ Cardinality(EmbeddingModels(db)) <= 1
        /\ (GetMeta(db, "embedding_model") # "" /\ EmbeddingModels(db) # {}) =>
              EmbeddingModels(db) = {GetMeta(db, "embedding_model")}

\* The source lines among the lines of a chunk's content.
IsSourceLine(line) == line[1] = "source"
SourceLines(content) == SelectSeq(content, IsSourceLine)

\* C37: every window of a split capture reports a line range inside the
\* capture's [startLine, endLine], and its content, the header lines of the
\* enriched content apart, is exactly the source lines of that range.
C37_WindowLineRanges ==
    (pureCall.fn = "split" /\ pureCall.done /\ pureCall.bytes > maxChunkBytes) =>
        \A i \in 1..Len(pureCall.chunks) :
           LET w == pureCall.chunks[i]
           IN  /\ pureCall.cap.startLine <= w.StartLine
               /\ w.StartLine <= w.EndLine
               /\ w.EndLine <= pureCall.cap.endLine
               /\ SourceLines(w.Content) =
                     [k \in 1..(w.EndLine - w.StartLine + 1) |-> <<"source", w.StartLine + k - 1>>]

\* C38: when HybridRetrieve returns results and the lexical search found k
\* distinct chunks, the output is those k lexical results, in their order,
\* and none that only the vector search found; a result of the vector search
\* stands in the output only behind all the distinct lexical results, which
\* are then fewer than k.
C38_LexicalFirstFill ==
    (retrieval # NoRetrieval /\ retrieval.err = "") =>
        LET out == retrieval.results
            n   == Cardinality(IdsOf(Lexical))
        IN  /\ n = retrieval.k =>
                  /\ Len(out) = retrieval.k
                  /\ IdsOf(out) = IdsOf(Lexical)
                  /\ \A i \in 1..Len(out) :
                        /\ out[i].from = "fts"
                        /\ out[i] = Lexical[FirstIndex(Lexical, out[i].id)]
                        /\ \A j \in 1..Len(out) : i < j =>
                              FirstIndex(Lexical, out[i].id) < FirstIndex(Lexical, out[j].id)
            /\ \A i \in 1..Len(out) : out[i].from = "vec" =>
                  /\ n < retrieval.k
                  /\ i > n
                  /\ out[i].id \notin IdsOf(Lexical)

\* The lexical search found MaxK distinct chunks with k = MaxK and the vector
\* search found a chunk the lexical search did not: the output is the
\* lexical results.
C38_Witness ==
    /\ retrieval.err = "" /\ ~retrieval.ftsErr
    /\ retrieval.k = MaxK
    /\ Cardinality(IdsOf(retrieval.fts)) = MaxK
    /\ IdsOf(retrieval.vec) \ IdsOf(retrieval.fts) # {}
    /\ retrieval.results = retrieval.fts

\* The files whose bytes a stage holds: in a worker's hand or in a channel
\* between the hash stage and the store.
InFlight ==
    Cardinality(hashHeld) + Len(workCh) + Cardinality(chunkHeld) + Len(chunkCh)
    + Len(embedHeld) + Len(embeddedCh) + Len(storeCur)

\* The capacities of workCh, chunkCh and embeddedCh, and one item in the hand
\* of each of the N hash workers, the N chunk workers, the embed worker and
\* the store worker.
InFlightBound == 4 * NumWorkers + embeddedChCap + 2

Outstanding == Len(chat.cmd) + Len(chat.msg)

\* C40: in the chat screen at most one question is under way, and the state
\* is not idle exactly while one is; while the state is not idle no step
\* submits a question, and the history changes only when the answerMsg of
\* the question under way is delivered, the step at which, and only at
\* which, the state returns to idle.
C40_OneQuestionInFlight ==
    [][chat.ui = "tui" =>
        LET delivered == chat.msg # <<>> /\ chat'.msg = <<>>
        IN  /\ Outstanding' <= 1
            /\ (chat'.state # "chatIdle") <=> (Outstanding' = 1)
            /\ chat'.state \in {"chatIdle", "chatSearching", "chatGenerating"}
            /\ chat.state # "chatIdle" =>
                  /\ chat'.asked = chat.asked
                  /\ chat'.input = chat.input
                  /\ ~delivered => (chat'.history = chat.history /\ chat'.state = chat.state)
                  /\ chat'.cmd # chat.cmd =>
                        /\ chat'.cmd = <<>> /\ chat.msg = <<>>
                        /\ Len(chat'.msg) = 1 /\ chat'.msg[1].answer = chat.cmd[1].question
                  /\ (chat'.cmd = chat.cmd /\ chat'.msg = chat.msg) =>
                        chat' = [chat EXCEPT !.event = chat'.event, !.quit = chat'.quit]
            /\ (chat.state # "chatIdle" /\ chat'.state = "chatIdle") <=> delivered
            /\ delivered => chat.msg[1].answer = chat.asked
     ]_vars

\* Enter is pressed while the answer to the second question is awaited.
C40_Witness ==
    /\ chat.ui = "tui"
    /\ chat.state = "chatSearching"
    /\ chat.event = "enter dropped"
    /\ chat.msg # <<>>
    /\ chat.asked = 2 /\ Len(chat.history) = 3

====
